---- MODULE Spec2Model ----
(***************************************************************************)
(* State-machine model of booru-db-danbooru: the post Database with its    *)
(* id / score / status / tag indexes, the nested tag-db, the abbreviation  *)
(* table, and the change-notification handlers that maintain them.         *)
(*                                                                         *)
(* Strings are sequences of one-character strings so that abbreviations,   *)
(* n-grams, prefixes and suffixes are computed, not assumed.               *)
(***************************************************************************)
EXTENDS Integers, Sequences, FiniteSets, TLC

(* ------------------------------------------------------------------ *)
(* Bounds of the model                                                  *)
(* ------------------------------------------------------------------ *)

\* Bits per word of the occupied bitset (booru_db::PACKED_SIZE, scaled down).
PACKED_SIZE == 2

\* Largest number of posts handed to the bulk loader.
MaxInit == 1

(* ------------------------------------------------------------------ *)
(* Characters and strings                                               *)
(* ------------------------------------------------------------------ *)

\* Byte value of the characters used (Rust compares str bytewise).
CharCode(c) ==
    CASE c = "(" -> 40
      [] c = ")" -> 41
      [] c = "*" -> 42
      [] c = "/" -> 47
      [] c = "_" -> 95
      [] c = "a" -> 97
      [] c = "b" -> 98
      [] c = "c" -> 99

RECURSIVE StrLess(_, _)
\* s < t in Rust's str ordering (lexicographic on bytes, a proper prefix is less).
StrLess(s, t) ==
    IF t = << >> THEN FALSE
    ELSE IF s = << >> THEN TRUE
    ELSE IF CharCode(Head(s)) < CharCode(Head(t)) THEN TRUE
    ELSE IF CharCode(Head(s)) > CharCode(Head(t)) THEN FALSE
    ELSE StrLess(Tail(s), Tail(t))

\* str::starts_with / ends_with / contains
starts_with(t, x) == Len(x) <= Len(t) /\ SubSeq(t, 1, Len(x)) = x
ends_with(t, x) == Len(x) <= Len(t) /\ SubSeq(t, Len(t) - Len(x) + 1, Len(t)) = x
contains(t, x) == \E i \in 1..(Len(t) - Len(x) + 1) : SubSeq(t, i, i + Len(x) - 1) = x

RECURSIVE SeqFilterOut(_, _)
\* The sequence s without the elements of the set drop.
SeqFilterOut(s, drop) ==
    IF s = << >> THEN << >>
    ELSE IF Head(s) \in drop THEN SeqFilterOut(Tail(s), drop)
    ELSE <<Head(s)>> \o SeqFilterOut(Tail(s), drop)

RECURSIVE Initials(_, _)
\* First character of every non-empty '_'-separated part of s; atStart tells
\* whether the next character starts a part.
Initials(s, atStart) ==
    IF s = << >> THEN << >>
    ELSE IF Head(s) = "_" THEN Initials(Tail(s), TRUE)
    ELSE IF atStart THEN <<Head(s)>> \o Initials(Tail(s), FALSE)
    ELSE Initials(Tail(s), FALSE)

\* TagAbbreviations::abbreviate without the replace of the brackets.
abbreviate_keeps_brackets(text) == Initials(text, TRUE)

\* TagAbbreviations::abbreviate
abbreviate(text) == Initials(SeqFilterOut(text, {"(", ")"}), TRUE)

(* ------------------------------------------------------------------ *)
(* Finite maps (HashMap): functions whose domain is the set of keys     *)
(* ------------------------------------------------------------------ *)

EmptyMap == << >>
MapPut(m, k, v) == [x \in (DOMAIN m) \cup {k} |-> IF x = k THEN v ELSE m[x]]
MapDel(m, k) == [x \in (DOMAIN m) \ {k} |-> m[x]]

SeqRemoveAt(s, i) == SubSeq(s, 1, i - 1) \o SubSeq(s, i + 1, Len(s))
SeqInsertAt(s, i, e) == SubSeq(s, 1, i - 1) \o <<e>> \o SubSeq(s, i, Len(s))
SeqToSet(s) == {s[i] : i \in 1..Len(s)}

\* Option<T>
None == [some |-> FALSE]
Some(v) == [some |-> TRUE, val |-> v]

Min(S) == CHOOSE x \in S : \A y \in S : x <= y

\* All orders in which the elements of the finite set S can be enumerated
\* (the iteration order of a HashMap / HashSet is unspecified).
Orders(S) ==
    {f \in [1..Cardinality(S) -> S] : \A i, j \in 1..Cardinality(S) : i # j => f[i] # f[j]}

(* ------------------------------------------------------------------ *)
(* booru_db: packed occupied bitset of a Db                             *)
(* ------------------------------------------------------------------ *)

RECURSIVE Pow2(_)
Pow2(n) == IF n = 0 THEN 1 ELSE 2 * Pow2(n - 1)

\* Packed::MAX: a word with every bit set.
PackedMax == Pow2(PACKED_SIZE) - 1

\* (c & (1 << i)) != 0
BitSet(c, i) == (c \div Pow2(i)) % 2 = 1

\* The dense ids whose bit is set in the word array.
Occupied(checks) ==
    {i \in 0..(Len(checks) * PACKED_SIZE - 1) :
        BitSet(checks[(i \div PACKED_SIZE) + 1], i % PACKED_SIZE)}

RECURSIVE Grow(_, _)
\* The word array extended with zero words until it has n words.
Grow(checks, n) == IF Len(checks) >= n THEN checks ELSE Grow(Append(checks, 0), n)

\* Db::insert's effect on the occupied bitset: set bit id, growing the universe.
Db_set(checks, id) ==
    LET g == Grow(checks, (id \div PACKED_SIZE) + 1)
        k == (id \div PACKED_SIZE) + 1
        b == id % PACKED_SIZE
    IN  IF BitSet(g[k], b) THEN g ELSE [g EXCEPT ![k] = @ + Pow2(b)]

\* Db::remove's effect on the occupied bitset: clear bit id.
Db_clear(checks, id) ==
    LET k == (id \div PACKED_SIZE) + 1
        b == id % PACKED_SIZE
    IN  IF k <= Len(checks) /\ BitSet(checks[k], b)
        THEN [checks EXCEPT ![k] = @ - Pow2(b)]
        ELSE checks

\* Db::next_id: the lowest clear bit, or one past the last word when full.
Db_next_id(checks) ==
    Min((0..(Len(checks) * PACKED_SIZE)) \ Occupied(checks))

\* The word array after the loader assigned the dense ids 0..n-1.
RECURSIVE LoadedChecks(_)
LoadedChecks(n) == IF n = 0 THEN << >> ELSE Db_set(LoadedChecks(n - 1), n - 1)

(* ------------------------------------------------------------------ *)
(* booru_db: KeyIndex / KeysIndex (key -> posting bitset)               *)
(* ------------------------------------------------------------------ *)

\* KeyIndex::get / KeysIndex::get
KeyIndex_get(items, key) == IF key \in DOMAIN items THEN Some(items[key]) ELSE None

\* KeyIndex::insert: add id to the posting of key, creating it if absent.
KeyIndex_insert(items, id, key) ==
    MapPut(items, key, (IF key \in DOMAIN items THEN items[key] ELSE {}) \cup {id})

\* KeyIndex::remove: clear the bit; drop the posting when it becomes empty.
KeyIndex_remove(items, id, key) ==
    IF key \notin DOMAIN items THEN items
    ELSE IF items[key] \ {id} = {} THEN MapDel(items, key)
    ELSE MapPut(items, key, items[key] \ {id})

\* KeyIndex::update: no-op when the key is unchanged, else remove then insert.
KeyIndex_update(items, id, old_key, new_key) ==
    IF old_key = new_key THEN items
    ELSE KeyIndex_insert(KeyIndex_remove(items, id, old_key), id, new_key)

RECURSIVE KeysIndex_insert(_, _, _)
\* KeysIndex::insert: add id to the posting of every key of the record.
KeysIndex_insert(items, id, keys) ==
    IF keys = << >> THEN items
    ELSE KeysIndex_insert(KeyIndex_insert(items, id, Head(keys)), id, Tail(keys))

RECURSIVE KeysIndex_remove(_, _, _)
\* KeysIndex::remove: clear id in the posting of every key of the record.
KeysIndex_remove(items, id, keys) ==
    IF keys = << >> THEN items
    ELSE KeysIndex_remove(KeyIndex_remove(items, id, Head(keys)), id, Tail(keys))

RECURSIVE SetToSeq(_)
SetToSeq(S) == IF S = {} THEN << >> ELSE LET x == CHOOSE y \in S : TRUE IN <<x>> \o SetToSeq(S \ {x})

\* KeysIndex::update: removed = old - new leave, added = new - old enter.
KeysIndex_update(items, id, old_keys, new_keys) ==
    LET added == SeqToSet(new_keys) \ SeqToSet(old_keys)
        removed == SeqToSet(old_keys) \ SeqToSet(new_keys)
    IN  KeysIndex_insert(KeysIndex_remove(items, id, SetToSeq(removed)), id, SetToSeq(added))

\* Queryable::matched of a posting.
matched(posting) == Cardinality(posting)

(* ------------------------------------------------------------------ *)
(* booru_db: RangeIndex (array of (value, id) pairs sorted by value,    *)
(* then id, plus the id -> value map)                                   *)
(* ------------------------------------------------------------------ *)

EmptyRange == [pairs |-> << >>, id_values |-> EmptyMap]

PairLess(p, q) == p[1] < q[1] \/ (p[1] = q[1] /\ p[2] < q[2])

\* Position at which the pair p keeps the array sorted.
SortedPos(pairs, p) == 1 + Cardinality({i \in 1..Len(pairs) : PairLess(pairs[i], p)})

\* RangeIndex::insert
RangeIndex_insert(ri, id, value) ==
    [pairs |-> SeqInsertAt(ri.pairs, SortedPos(ri.pairs, <<value, id>>), <<value, id>>),
     id_values |-> MapPut(ri.id_values, id, value)]

\* RangeIndex::remove: the pair (value, id) leaves the array; a pair that is
\* not in the array (the caller passed a value the id is not stored under)
\* cannot be found and so stays.
RangeIndex_remove(ri, id, value) ==
    LET hits == {i \in 1..Len(ri.pairs) : ri.pairs[i] = <<value, id>>}
    IN  [pairs |-> IF hits = {} THEN ri.pairs ELSE SeqRemoveAt(ri.pairs, Min(hits)),
         id_values |-> MapDel(ri.id_values, id)]

\* RangeIndex::update
RangeIndex_update(ri, id, old_value, new_value) ==
    IF old_value = new_value THEN ri
    ELSE RangeIndex_insert(RangeIndex_remove(ri, id, old_value), id, new_value)

RECURSIVE RangeIndexLoader_load(_)
\* RangeIndexLoader::add for every (id, value) of the sequence, then load.
RangeIndexLoader_load(added) ==
    IF added = << >> THEN EmptyRange
    ELSE RangeIndex_insert(RangeIndexLoader_load(Tail(added)), Head(added)[1], Head(added)[2])

\* RangeIndex::ids: the ids in value order.
RangeIndex_ids(ri) == [i \in 1..Len(ri.pairs) |-> ri.pairs[i][2]]

\* RangeQuery<V>: the parsed forms of a range literal.
InRange(rq, v) ==
    CASE rq.kind = "between" -> rq.lo <= v /\ v <= rq.hi
      [] rq.kind = "from" -> rq.lo <= v
      [] rq.kind = "to" -> v <= rq.hi
      [] rq.kind = "exact" -> v = rq.lo
      [] rq.kind = "less" -> v < rq.lo
      [] rq.kind = "greater" -> v > rq.lo

\* RangeIndex::get: the slice of the array whose values lie in the range.
RangeIndex_get(ri, rq) ==
    {ri.pairs[i][2] : i \in {j \in 1..Len(ri.pairs) : InRange(rq, ri.pairs[j][1])}}

(* ------------------------------------------------------------------ *)
(* booru_db: NgramIndex<N> (gram -> list of (source string, id))        *)
(* ------------------------------------------------------------------ *)

\* The N-grams of s, one per position.
Grams(n, s) == [i \in 1..(IF Len(s) >= n THEN Len(s) - n + 1 ELSE 0) |-> SubSeq(s, i, i + n - 1)]

RECURSIVE NgramAppend(_, _, _)
NgramAppend(idx, grams, entry) ==
    IF grams = << >> THEN idx
    ELSE NgramAppend(
            MapPut(idx, Head(grams),
                   Append(IF Head(grams) \in DOMAIN idx THEN idx[Head(grams)] ELSE << >>, entry)),
            Tail(grams), entry)

\* NgramIndex::insert: append (s, id) to the list of every gram of s.
NgramIndex_insert(idx, n, id, s) == NgramAppend(idx, Grams(n, s), <<s, id>>)

\* NgramIndex::remove: (s, id) leaves the list of every gram of s.
NgramIndex_remove(idx, n, id, s) ==
    LET cleaned == [g \in DOMAIN idx |-> SeqFilterOut(idx[g], {<<s, id>>})]
    IN  [g \in {h \in DOMAIN cleaned : cleaned[h] # << >>} |-> cleaned[g]]

\* NgramIndex::query: None when the text has no gram or one of its grams has
\* no list, else the shortest of the lists of the text's grams.
NgramIndex_query(idx, n, text) ==
    LET gs == SeqToSet(Grams(n, text))
    IN  IF gs = {} \/ \E g \in gs : g \notin DOMAIN idx THEN None
        ELSE LET best == CHOOSE g \in gs : \A h \in gs : Len(idx[g]) <= Len(idx[h])
             IN  Some(idx[best])

\* TextQuery::from_str: "*x*" is Contains(x), "*x" EndsWith(x), "x*" StartsWith(x).
TextQuery_parse(text) ==
    LET n == Len(text)
        star1 == n >= 1 /\ text[1] = "*"
        starN == n >= 1 /\ text[n] = "*"
    IN  IF n >= 2 /\ star1 /\ starN THEN [kind |-> "Contains", text |-> SubSeq(text, 2, n - 1)]
        ELSE IF star1 THEN [kind |-> "EndsWith", text |-> SubSeq(text, 2, n)]
        ELSE IF starN THEN [kind |-> "StartsWith", text |-> SubSeq(text, 1, n - 1)]
        ELSE [kind |-> "Contains", text |-> text]

(* ------------------------------------------------------------------ *)
(* tag.rs: the tag-db, a Db of Tag{name, count} records with the        *)
(* indexes "id", "count" and the default n-gram name index              *)
(* ------------------------------------------------------------------ *)

Tag(name, count) == [name |-> name, count |-> count]

EmptyTagDb ==
    [checks |-> << >>, name_to_id |-> EmptyMap, id_to_name |-> EmptyMap,
     count |-> EmptyRange, n1gram |-> EmptyMap, n2gram |-> EmptyMap]

\* TagDbIdIndex::insert
TagDbIdIndex_insert(tdb, id, tag) ==
    [tdb EXCEPT !.name_to_id = MapPut(@, tag.name, id),
                !.id_to_name = MapPut(@, id, tag.name)]

\* A remove that forgets the id but keeps the name.
TagDbIdIndex_remove_keeps_name(tdb, id, tag) ==
    [tdb EXCEPT !.id_to_name = MapDel(@, id)]

\* TagDbIdIndex::remove
TagDbIdIndex_remove(tdb, id, tag) ==
    [tdb EXCEPT !.id_to_name = MapDel(@, id),
                !.name_to_id = MapDel(@, tag.name)]

\* TagDbIdIndex::update
TagDbIdIndex_update(tdb, id, old, new) ==
    IF old.name = new.name THEN tdb
    ELSE TagDbIdIndex_insert(TagDbIdIndex_remove(tdb, id, old), id, new)

\* TagDbCountIndex::insert
TagDbCountIndex_insert(tdb, id, tag) ==
    [tdb EXCEPT !.count = RangeIndex_insert(@, id, tag.count)]

\* TagDbCountIndex::remove
TagDbCountIndex_remove(tdb, id, tag) ==
    [tdb EXCEPT !.count = RangeIndex_remove(@, id, tag.count)]

\* TagDbCountIndex::update
TagDbCountIndex_update(tdb, id, old, new) ==
    IF old.count = new.count THEN tdb
    ELSE TagDbCountIndex_insert(TagDbCountIndex_remove(tdb, id, old), id, new)

\* TagDbNameIndex::insert
TagDbNameIndex_insert(tdb, id, tag) ==
    [tdb EXCEPT !.n1gram = NgramIndex_insert(@, 1, id, tag.name),
                !.n2gram = NgramIndex_insert(@, 2, id, tag.name)]

\* TagDbNameIndex::remove
TagDbNameIndex_remove(tdb, id, tag) ==
    [tdb EXCEPT !.n1gram = NgramIndex_remove(@, 1, id, tag.name),
                !.n2gram = NgramIndex_remove(@, 2, id, tag.name)]

\* TagDbNameIndex::update
TagDbNameIndex_update(tdb, id, old, new) ==
    IF old.name = new.name THEN tdb
    ELSE TagDbNameIndex_insert(TagDbNameIndex_remove(tdb, id, old), id, new)

RECURSIVE NameFilter_prefix_only(_, _)
\* The filter loop with starts_with in every arm.
NameFilter_prefix_only(entries, query) ==
    IF entries = << >> THEN << >>
    ELSE (IF starts_with(Head(entries)[1], query.text) THEN <<Head(entries)[2]>> ELSE << >>)
            \o NameFilter_prefix_only(Tail(entries), query)

RECURSIVE NameFilter(_, _)
\* The loop of TagDbNameIndex::query: the ids of the entries (t, id) of the
\* gram list whose string t passes the predicate of the text query, in list order.
NameFilter(entries, query) ==
    IF entries = << >> THEN << >>
    ELSE LET t == Head(entries)[1]
             keep == CASE query.kind = "StartsWith" -> starts_with(t, query.text)
                       [] query.kind = "Contains" -> contains(t, query.text)
                       [] query.kind = "EndsWith" -> ends_with(t, query.text)
         IN  (IF keep THEN <<Head(entries)[2]>> ELSE << >>) \o NameFilter(Tail(entries), query)

\* TagDbNameIndex::query that shortlists from the 2-gram index whatever the
\* length of the text.
TagDbNameIndex_query_2gram_only(tdb, text) ==
    LET query == TextQuery_parse(text)
        smallest == CASE Len(query.text) = 0 -> None
                      [] OTHER -> NgramIndex_query(tdb.n2gram, 2, query.text)
    IN  IF ~smallest.some THEN << >> ELSE NameFilter(smallest.val, query)

\* TagDbNameIndex::query: the owned id list (Queryable::IDsOwned) for the text.
TagDbNameIndex_query(tdb, text) ==
    LET query == TextQuery_parse(text)
        smallest == CASE Len(query.text) = 0 -> None
                      [] Len(query.text) = 1 -> NgramIndex_query(tdb.n1gram, 1, query.text)
                      [] OTHER -> NgramIndex_query(tdb.n2gram, 2, query.text)
    IN  IF ~smallest.some THEN << >> ELSE NameFilter(smallest.val, query)

\* Db<Tag>::insert: mark id occupied and forward to the three indexes.
TagDb_insert(tdb, id, tag) ==
    LET a == [tdb EXCEPT !.checks = Db_set(@, id)]
    IN  TagDbIdIndex_insert(TagDbCountIndex_insert(TagDbNameIndex_insert(a, id, tag), id, tag), id, tag)

\* Db<Tag>::remove: mark id free and forward to the three indexes.
TagDb_remove(tdb, id, tag) ==
    LET a == [tdb EXCEPT !.checks = Db_clear(@, id)]
    IN  TagDbIdIndex_remove(TagDbCountIndex_remove(TagDbNameIndex_remove(a, id, tag), id, tag), id, tag)

\* Db<Tag>::update: forward to the three indexes.
TagDb_update(tdb, id, old, new) ==
    TagDbIdIndex_update(TagDbCountIndex_update(TagDbNameIndex_update(tdb, id, old, new), id, old, new), id, old, new)

RECURSIVE TagDbLoader_load(_, _)
\* DbLoader<Tag>::load: the tags of the sequence get the dense ids 0, 1, ... in order.
TagDbLoader_load(tags, n) ==
    IF n = 0 THEN EmptyTagDb
    ELSE TagDb_insert(TagDbLoader_load(tags, n - 1), n - 1, tags[n])

(* ------------------------------------------------------------------ *)
(* tag.rs: TagAbbreviations                                             *)
(* ------------------------------------------------------------------ *)

\* (u32, String)::cmp as -1 / 0 / 1.
ItemCmp(p, q) ==
    IF p[1] < q[1] THEN -1
    ELSE IF p[1] > q[1] THEN 1
    ELSE IF StrLess(p[2], q[2]) THEN -1
    ELSE IF StrLess(q[2], p[2]) THEN 1
    ELSE 0

RECURSIVE BinarySearchRev(_, _, _, _)
\* items.binary_search_by(|probe| probe.cmp(&item).reverse()) on [left, right):
\* [found |-> TRUE/FALSE, index |-> 0-based position].
BinarySearchRev(items, item, left, right) ==
    IF left >= right THEN [found |-> FALSE, index |-> left]
    ELSE LET mid == left + ((right - left) \div 2)
             c == 0 - ItemCmp(items[mid + 1], item)
         IN  IF c < 0 THEN BinarySearchRev(items, item, mid + 1, right)
             ELSE IF c > 0 THEN BinarySearchRev(items, item, left, mid)
             ELSE [found |-> TRUE, index |-> mid]

\* Position of the first item of the list that names the tag, 0 if none.
FindTag(items, text) ==
    LET hits == {i \in 1..Len(items) : items[i][2] = text}
    IN  IF hits = {} THEN 0 ELSE Min(hits)

ItemsOf(abbreviations, a) == IF a \in DOMAIN abbreviations THEN abbreviations[a] ELSE << >>

\* TagAbbreviations::get
TagAbbreviations_get(abbreviations, abbreviation) ==
    IF abbreviation \notin DOMAIN abbreviations THEN None
    ELSE IF abbreviations[abbreviation] = << >> THEN None
    ELSE Some(abbreviations[abbreviation][1][2])

\* TagAbbreviations::insert
TagAbbreviations_insert(abbreviations, text) ==
    LET a == abbreviate(text)
        items == ItemsOf(abbreviations, a)
        at == FindTag(items, text)
        item == <<1, text>>
        r == BinarySearchRev(items, item, 0, Len(items))
    IN  IF at # 0 THEN MapPut(abbreviations, a, [items EXCEPT ![at] = <<@[1] + 1, @[2]>>])
        ELSE IF ~r.found THEN MapPut(abbreviations, a, SeqInsertAt(items, r.index + 1, item))
        ELSE MapPut(abbreviations, a, items)

\* TagAbbreviations::insert_item
TagAbbreviations_insert_item(abbreviations, text, count) ==
    LET a == abbreviate(text)
        items == ItemsOf(abbreviations, a)
        item == <<count, text>>
        r == BinarySearchRev(items, item, 0, Len(items))
    IN  MapPut(abbreviations, a, SeqInsertAt(items, r.index + 1, item))

\* TagAbbreviations::remove
TagAbbreviations_remove(abbreviations, text) ==
    LET a == abbreviate(text)
    IN  IF a \notin DOMAIN abbreviations THEN abbreviations
        ELSE LET items == abbreviations[a]
                 at == FindTag(items, text)
             IN  IF at = 0 THEN abbreviations
                 ELSE IF items[at][1] - 1 # 0
                 THEN MapPut(abbreviations, a, [items EXCEPT ![at] = <<@[1] - 1, @[2]>>])
                 ELSE IF SeqRemoveAt(items, at) = << >> THEN MapDel(abbreviations, a)
                 ELSE MapPut(abbreviations, a, SeqRemoveAt(items, at))

(* ------------------------------------------------------------------ *)
(* tag.rs: TagIndex = keys_index + abbreviations + tag_db               *)
(* ------------------------------------------------------------------ *)

EmptyTagIndex == [keys_index |-> EmptyMap, abbreviations |-> EmptyMap, tag_db |-> EmptyTagDb]

\* add_tag whose old record carries the new count.
add_tag_old_is_new(ti, name) ==
    LET count == matched(ti.keys_index[name])
        tag == Tag(name, count)
    IN  IF name \in DOMAIN ti.tag_db.name_to_id
        THEN [ti EXCEPT !.tag_db = TagDb_update(@, ti.tag_db.name_to_id[name], tag, tag)]
        ELSE [ti EXCEPT !.tag_db = TagDb_insert(@, Db_next_id(ti.tag_db.checks), tag)]

\* TagIndex::add_tag
add_tag(ti, name) ==
    LET count == matched(ti.keys_index[name])
        tag == Tag(name, count)
    IN  IF name \in DOMAIN ti.tag_db.name_to_id
        THEN [ti EXCEPT !.tag_db =
                TagDb_update(@, ti.tag_db.name_to_id[name], Tag(name, count - 1), tag)]
        ELSE [ti EXCEPT !.tag_db = TagDb_insert(@, Db_next_id(ti.tag_db.checks), tag)]

\* TagIndex::remove_tag
remove_tag(ti, name) ==
    LET count == IF name \in DOMAIN ti.keys_index THEN matched(ti.keys_index[name]) ELSE 0
        tag == Tag(name, count)
    IN  IF name \in DOMAIN ti.tag_db.name_to_id
        THEN IF tag.count = 0
             THEN [ti EXCEPT !.tag_db = TagDb_remove(@, ti.tag_db.name_to_id[name], tag)]
             ELSE [ti EXCEPT !.tag_db =
                     TagDb_update(@, ti.tag_db.name_to_id[name], Tag(name, count + 1), tag)]
        ELSE ti

RECURSIVE AddTags(_, _)
\* The loop "abbreviations.insert(tag); add_tag(tag)" over the tags in order.
AddTags(ti, tags) ==
    IF tags = << >> THEN ti
    ELSE AddTags(
            add_tag([ti EXCEPT !.abbreviations = TagAbbreviations_insert(@, Head(tags))], Head(tags)),
            Tail(tags))

RECURSIVE RemoveTags(_, _)
\* The loop "abbreviations.remove(tag); remove_tag(tag)" over the tags in order.
RemoveTags(ti, tags) ==
    IF tags = << >> THEN ti
    ELSE RemoveTags(
            remove_tag([ti EXCEPT !.abbreviations = TagAbbreviations_remove(@, Head(tags))], Head(tags)),
            Tail(tags))

\* TagIndex::insert
TagIndex_insert(ti, id, post) ==
    AddTags([ti EXCEPT !.keys_index = KeysIndex_insert(@, id, post.tags)], post.tags)

\* TagIndex::remove that leaves the postings of keys_index alone.
TagIndex_remove_keeps_posting(ti, id, post) == RemoveTags(ti, post.tags)

\* TagIndex::remove
TagIndex_remove(ti, id, post) ==
    RemoveTags([ti EXCEPT !.keys_index = KeysIndex_remove(@, id, post.tags)], post.tags)

\* TagIndex::update that runs the insert loop over every tag of the new list.
TagIndex_update_adds_all(ti, id, old, new, added, removed) ==
    IF old.tags = new.tags THEN ti
    ELSE RemoveTags(
            AddTags([ti EXCEPT !.keys_index = KeysIndex_update(@, id, old.tags, new.tags)],
                    new.tags),
            removed)

\* TagIndex::update; added and removed are the two set differences in the
\* order in which the HashSet iterators yield them.
TagIndex_update(ti, id, old, new, added, removed) ==
    IF old.tags = new.tags THEN ti
    ELSE RemoveTags(
            AddTags([ti EXCEPT !.keys_index = KeysIndex_update(@, id, old.tags, new.tags)], added),
            removed)

RECURSIVE LoadAbbreviations(_, _, _)
\* The loop of TagIndexLoader::load that fills the abbreviation table.
LoadAbbreviations(items, order, n) ==
    IF n = 0 THEN EmptyMap
    ELSE TagAbbreviations_insert_item(
            LoadAbbreviations(items, order, n - 1), order[n], matched(items[order[n]]))

\* TagIndexLoader::load; order is the iteration order of keys_index.items.
TagIndexLoader_load(items, order) ==
    [keys_index |-> items,
     abbreviations |-> LoadAbbreviations(items, order, Len(order)),
     tag_db |-> TagDbLoader_load([i \in 1..Len(order) |-> Tag(order[i], matched(items[order[i]]))],
                                 Len(order))]

\* Evaluated form of a Query<Queryable>: what the index built for a term.
Single(posting, inverse) == [kind |-> "Single", posting |-> posting, inverse |-> inverse]
OrChain(chain, inverse) == [kind |-> "OrChain", chain |-> chain, inverse |-> inverse]
\* A panicking unwrap inside query construction.
Panic == [kind |-> "Panic"]

\* Db<Tag>::query of a single text term followed by result.get(0, matched, false):
\* the matching tag ids in ascending order without repetition.
TagDb_query_ids(tdb, text) == SeqToSet(TagDbNameIndex_query(tdb, text))

\* TagIndex::query that treats every text as an abbreviation.
TagIndex_query_always_abbreviation(ti, text, inverse) ==
    LET tag == TagAbbreviations_get(ti.abbreviations, text)
        queryable == IF tag.some THEN KeyIndex_get(ti.keys_index, tag.val) ELSE None
    IN  IF queryable.some THEN Some(Single(queryable.val, inverse)) ELSE None

\* TagIndex::query
TagIndex_query(ti, text, inverse) ==
    IF text # << >> /\ (Head(text) = "*" \/ text[Len(text)] = "*")
    THEN LET ids == TagDb_query_ids(ti.tag_db, text)
         IN  IF \E id \in ids : \/ id \notin DOMAIN ti.tag_db.id_to_name
                                \/ ti.tag_db.id_to_name[id] \notin DOMAIN ti.keys_index
             THEN Some(Panic)
             ELSE Some(OrChain({ti.keys_index[ti.tag_db.id_to_name[id]] : id \in ids}, inverse))
    ELSE LET queryable ==
                IF text # << >> /\ Head(text) = "/"
                THEN LET tag == TagAbbreviations_get(ti.abbreviations, Tail(text))
                     IN  IF tag.some THEN KeyIndex_get(ti.keys_index, tag.val) ELSE None
                ELSE KeyIndex_get(ti.keys_index, text)
         IN  IF queryable.some THEN Some(Single(queryable.val, inverse)) ELSE None

(* ------------------------------------------------------------------ *)
(* index/id.rs and index/mod.rs: the indexes of the post Database       *)
(* ------------------------------------------------------------------ *)

EmptyIdIndex == [post_id_to_id |-> EmptyMap, range_index |-> EmptyRange]

\* IdIndex::post_id_to_id
post_id_to_id(ix, post_id) ==
    IF post_id \in DOMAIN ix.post_id_to_id THEN Some(ix.post_id_to_id[post_id]) ELSE None

\* IdIndex::id_to_post_id
id_to_post_id(ix, id) ==
    IF id \in DOMAIN ix.range_index.id_values THEN Some(ix.range_index.id_values[id]) ELSE None

\* IdIndex::insert
IdIndex_insert(ix, id, post) ==
    [post_id_to_id |-> MapPut(ix.post_id_to_id, post.id, id),
     range_index |-> RangeIndex_insert(ix.range_index, id, post.id)]

\* IdIndex::remove that forgets to drop the post id from the hash map.
IdIndex_remove_keeps_map(ix, id, post) ==
    [post_id_to_id |-> ix.post_id_to_id,
     range_index |-> RangeIndex_remove(ix.range_index, id, post.id)]

\* IdIndex::remove
IdIndex_remove(ix, id, post) ==
    [post_id_to_id |-> MapDel(ix.post_id_to_id, post.id),
     range_index |-> RangeIndex_remove(ix.range_index, id, post.id)]

\* IdIndex::update that inserts the new post id and leaves the old one in place.
IdIndex_update_keeps_old(ix, id, old, new) ==
    IF old.id = new.id THEN ix
    ELSE [post_id_to_id |-> MapPut(ix.post_id_to_id, new.id, id),
          range_index |-> RangeIndex_update(ix.range_index, id, old.id, new.id)]

\* IdIndex::update
IdIndex_update(ix, id, old, new) ==
    IF old.id = new.id THEN ix
    ELSE IdIndex_insert(IdIndex_remove(ix, id, old), id, new)

\* A score projection that forgets the down votes.
ScoreValue_up_only(post) == post.up_score

\* The projection of ScoreIndex: |p| p.up_score + p.down_score
ScoreValue(post) == post.up_score + post.down_score

\* range_index!(ScoreIndexLoader, ScoreIndex, ...) insert / remove / update
ScoreIndex_insert(ri, id, post) == RangeIndex_insert(ri, id, ScoreValue(post))
ScoreIndex_remove(ri, id, post) == RangeIndex_remove(ri, id, ScoreValue(post))
ScoreIndex_update(ri, id, old, new) == RangeIndex_update(ri, id, ScoreValue(old), ScoreValue(new))

\* The projection of StatusIndex: |p| p.status
StatusKey(post) == post.status

\* key_index!(StatusIndexLoader, StatusIndex, ...) insert / remove / update
StatusIndex_insert(items, id, post) == KeyIndex_insert(items, id, StatusKey(post))
\* StatusIndex::remove that leaves the posting alone.
StatusIndex_remove_noop(items, id, post) == items

StatusIndex_remove(items, id, post) == KeyIndex_remove(items, id, StatusKey(post))

\* StatusIndex::update that inserts under the new key and forgets the old one.
StatusIndex_update_keeps_old(items, id, old, new) == KeyIndex_insert(items, id, StatusKey(new))

StatusIndex_update(items, id, old, new) == KeyIndex_update(items, id, StatusKey(old), StatusKey(new))

\* derive(PartialOrd, Ord) of PixivId(Option<u32>): the rank of the value in
\* the order of Option, where None comes before every Some.
PixivIdValue(post) == IF post.pixiv_id.some THEN post.pixiv_id.val + 1 ELSE 0

\* range_index!(PixivIdIndexLoader, PixivIdIndex, ...) insert / remove / update
PixivIdIndex_insert(ri, id, post) == RangeIndex_insert(ri, id, PixivIdValue(post))
PixivIdIndex_remove(ri, id, post) == RangeIndex_remove(ri, id, PixivIdValue(post))
PixivIdIndex_update(ri, id, old, new) ==
    RangeIndex_update(ri, id, PixivIdValue(old), PixivIdValue(new))

\* The projection of ParentIdIndex: |p| ParentId(p.parent_id)
ParentIdKey(post) == post.parent_id

\* key_index!(ParentIdIndexLoader, ParentIdIndex, ...) insert / remove / update
ParentIdIndex_insert(items, id, post) == KeyIndex_insert(items, id, ParentIdKey(post))
ParentIdIndex_remove(items, id, post) == KeyIndex_remove(items, id, ParentIdKey(post))
ParentIdIndex_update(items, id, old, new) ==
    KeyIndex_update(items, id, ParentIdKey(old), ParentIdKey(new))

(* ------------------------------------------------------------------ *)
(* db!(BooruPost): the post Database                                    *)
(* ------------------------------------------------------------------ *)

\* Db::insert: mark id occupied and forward (id, post) to every index.
Db_insert(d, id, post) ==
    [checks |-> Db_set(d.checks, id),
     id_index |-> IdIndex_insert(d.id_index, id, post),
     score_index |-> ScoreIndex_insert(d.score_index, id, post),
     status_index |-> StatusIndex_insert(d.status_index, id, post),
     pixiv_index |-> PixivIdIndex_insert(d.pixiv_index, id, post),
     parent_index |-> ParentIdIndex_insert(d.parent_index, id, post),
     tag_index |-> TagIndex_insert(d.tag_index, id, post)]

\* Db::remove: mark id free and forward (id, post) to every index.
Db_remove(d, id, post) ==
    [checks |-> Db_clear(d.checks, id),
     id_index |-> IdIndex_remove(d.id_index, id, post),
     score_index |-> ScoreIndex_remove(d.score_index, id, post),
     status_index |-> StatusIndex_remove(d.status_index, id, post),
     pixiv_index |-> PixivIdIndex_remove(d.pixiv_index, id, post),
     parent_index |-> ParentIdIndex_remove(d.parent_index, id, post),
     tag_index |-> TagIndex_remove(d.tag_index, id, post)]

\* Db::update: forward (id, old, new) to every index.
Db_update(d, id, old, new, added, removed) ==
    [checks |-> d.checks,
     id_index |-> IdIndex_update(d.id_index, id, old, new),
     score_index |-> ScoreIndex_update(d.score_index, id, old, new),
     status_index |-> StatusIndex_update(d.status_index, id, old, new),
     pixiv_index |-> PixivIdIndex_update(d.pixiv_index, id, old, new),
     parent_index |-> ParentIdIndex_update(d.parent_index, id, old, new),
     tag_index |-> TagIndex_update(d.tag_index, id, old, new, added, removed)]

RECURSIVE LoaderAdd(_, _)
\* IndexLoader::add(id, post) of the loaders that keep no derived state, for
\* the posts of the sequence under the dense ids 0, 1, ...
LoaderAdd(posts, n) ==
    IF n = 0
    THEN [checks |-> << >>, id_index |-> EmptyIdIndex, score_index |-> EmptyRange,
          status_index |-> EmptyMap, pixiv_index |-> EmptyRange,
          parent_index |-> EmptyMap, keys |-> EmptyMap]
    ELSE LET d == LoaderAdd(posts, n - 1)
         IN  [checks |-> Db_set(d.checks, n - 1),
              id_index |-> IdIndex_insert(d.id_index, n - 1, posts[n]),
              score_index |-> ScoreIndex_insert(d.score_index, n - 1, posts[n]),
              status_index |-> StatusIndex_insert(d.status_index, n - 1, posts[n]),
              pixiv_index |-> PixivIdIndex_insert(d.pixiv_index, n - 1, posts[n]),
              parent_index |-> ParentIdIndex_insert(d.parent_index, n - 1, posts[n]),
              keys |-> KeysIndex_insert(d.keys, n - 1, posts[n].tags)]

\* DbLoader::load over the posts received from the channel; order is the
\* iteration order of the loaded keys_index.items.
DbLoader_load(posts, order) ==
    LET d == LoaderAdd(posts, Len(posts))
    IN  [checks |-> d.checks, id_index |-> d.id_index, score_index |-> d.score_index,
         status_index |-> d.status_index, pixiv_index |-> d.pixiv_index,
         parent_index |-> d.parent_index, tag_index |-> TagIndexLoader_load(d.keys, order)]

(* ------------------------------------------------------------------ *)
(* main.rs / sync.rs: the change-notification handlers                  *)
(* ------------------------------------------------------------------ *)

RECURSIVE ScanBits_set_bit(_, _)
\* The inner loop looking for a set bit instead of a clear one.
ScanBits_set_bit(c, i) ==
    IF i >= PACKED_SIZE THEN PACKED_SIZE
    ELSE IF BitSet(c, i) THEN i
    ELSE ScanBits_set_bit(c, i + 1)

RECURSIVE ScanBits(_, _)
\* for i in 0..PACKED_SIZE { if (c & (1 << i)) == 0 { ... break } }: the first
\* clear bit of c at or after i, PACKED_SIZE if there is none.
ScanBits(c, i) ==
    IF i >= PACKED_SIZE THEN PACKED_SIZE
    ELSE IF ~BitSet(c, i) THEN i
    ELSE ScanBits(c, i + 1)

RECURSIVE ScanWords(_, _)
\* The 'outer loop of the insert handler of main.rs from word index on.
ScanWords(checks, index) ==
    IF index >= Len(checks) THEN Len(checks) * PACKED_SIZE
    ELSE IF checks[index + 1] # PackedMax /\ ScanBits(checks[index + 1], 0) < PACKED_SIZE
    THEN index * PACKED_SIZE + ScanBits(checks[index + 1], 0)
    ELSE ScanWords(checks, index + 1)

\* The dense id the insert handler of main.rs computes from db.checks().
main_next_id(checks) == ScanWords(checks, 0)

(* ------------------------------------------------------------------ *)
(* Query terms and their evaluation                                     *)
(* ------------------------------------------------------------------ *)

\* str::parse::<i32> on the numerals the model writes; any other token is an error.
ParseInt(tok) ==
    CASE tok = "-2" -> Some(-2)
      [] tok = "-1" -> Some(-1)
      [] tok = "0" -> Some(0)
      [] tok = "1" -> Some(1)
      [] tok = "2" -> Some(2)
      [] tok = "3" -> Some(3)
      [] OTHER -> None

\* RangeQuery::from_str on the tokens of a range literal:
\* v..w, v.., ..w, v, <v, >v; anything else is an error.
RangeQuery_parse(text) ==
    LET num(i) == ParseInt(text[i])
    IN  IF Len(text) = 3 /\ text[2] = ".." /\ num(1).some /\ num(3).some
        THEN Some([kind |-> "between", lo |-> num(1).val, hi |-> num(3).val])
        ELSE IF Len(text) = 2 /\ text[2] = ".." /\ num(1).some
        THEN Some([kind |-> "from", lo |-> num(1).val])
        ELSE IF Len(text) = 2 /\ text[1] = ".." /\ num(2).some
        THEN Some([kind |-> "to", hi |-> num(2).val])
        ELSE IF Len(text) = 2 /\ text[1] = "<" /\ num(2).some
        THEN Some([kind |-> "less", lo |-> num(2).val])
        ELSE IF Len(text) = 2 /\ text[1] = ">" /\ num(2).some
        THEN Some([kind |-> "greater", lo |-> num(2).val])
        ELSE IF Len(text) = 1 /\ num(1).some
        THEN Some([kind |-> "exact", lo |-> num(1).val])
        ELSE None

\* range_index! query that answers an unparsable text with an empty posting.
ScoreIndex_query_empty_on_error(ri, text, inverse) ==
    LET range_query == RangeQuery_parse(text)
    IN  IF range_query.some THEN Some(Single(RangeIndex_get(ri, range_query.val), inverse))
        ELSE Some(Single({}, inverse))

\* range_index!(ScoreIndexLoader, ScoreIndex, ...) query
ScoreIndex_query(ri, text, inverse) ==
    LET range_query == RangeQuery_parse(text)
    IN  IF range_query.some THEN Some(Single(RangeIndex_get(ri, range_query.val), inverse))
        ELSE None

\* char::to_lowercase on the letters the model writes.
Lower(c) ==
    CASE c = "A" -> "a"
      [] c = "D" -> "d"
      [] c = "B" -> "b"
      [] OTHER -> c

\* str::to_lowercase
to_lowercase(text) == [i \in 1..Len(text) |-> Lower(text[i])]

\* Status::from_str
Status_from_str(text) ==
    LET l == to_lowercase(text)
    IN  CASE l = <<"a", "c", "t", "i", "v", "e">> -> Some("Active")
          [] l = <<"b", "a", "n", "n", "e", "d">> -> Some("Banned")
          [] l = <<"d", "e", "l", "e", "t", "e", "d">> -> Some("Deleted")
          [] l = <<"f", "l", "a", "g", "g", "e", "d">> -> Some("Flagged")
          [] l = <<"p", "e", "n", "d", "i", "n", "g">> -> Some("Pending")
          [] OTHER -> None

\* The text of a status name as a query writes it.
StatusText(st) ==
    CASE st = "Active" -> <<"a", "c", "t", "i", "v", "e">>
      [] st = "Deleted" -> <<"d", "e", "l", "e", "t", "e", "d">>

RECURSIVE SplitFrom(_, _, _)
\* The pieces of text from position i on, cur being the piece read so far.
SplitFrom(text, i, cur) ==
    IF i > Len(text) THEN <<cur>>
    ELSE IF text[i] = "," THEN <<cur>> \o SplitFrom(text, i + 1, << >>)
    ELSE SplitFrom(text, i + 1, Append(cur, text[i]))

\* text.split(',')
split(text) == SplitFrom(text, 1, << >>)

\* The comma branch of key_index! query: the postings of the values that parse
\* and have a posting.
StatusOrChain(items, values) ==
    {items[Status_from_str(values[k]).val] :
        k \in {j \in 1..Len(values) :
                /\ Status_from_str(values[j]).some
                /\ KeyIndex_get(items, Status_from_str(values[j]).val).some}}

\* key_index! query whose comma branch drops the inverse flag.
StatusIndex_query_comma_not_inverted(items, text, inverse) ==
    IF contains(text, <<",">>)
    THEN LET or_chain == StatusOrChain(items, split(text))
         IN  IF or_chain = {} THEN None ELSE Some(OrChain(or_chain, FALSE))
    ELSE LET key == Status_from_str(text)
         IN  IF key.some /\ KeyIndex_get(items, key.val).some
             THEN Some(Single(KeyIndex_get(items, key.val).val, inverse))
             ELSE None

\* key_index!(StatusIndexLoader, StatusIndex, ...) query
StatusIndex_query(items, text, inverse) ==
    IF contains(text, <<",">>)
    THEN LET or_chain == StatusOrChain(items, split(text))
         IN  IF or_chain = {} THEN None ELSE Some(OrChain(or_chain, inverse))
    ELSE LET key == Status_from_str(text)
         IN  IF key.some /\ KeyIndex_get(items, key.val).some
             THEN Some(Single(KeyIndex_get(items, key.val).val, inverse))
             ELSE None

\* PixivId::from_str on a token: `none` is PixivId(None), a u32 numeral n is
\* PixivId(Some(n)), anything else is an error; the value is given by its rank.
PixivId_from_str(tok) ==
    IF tok = "none" THEN Some(0)
    ELSE IF ParseInt(tok).some /\ ParseInt(tok).val >= 0 THEN Some(ParseInt(tok).val + 1)
    ELSE None

\* RangeQuery::<PixivId>::from_str on the tokens of a range literal.
PixivRangeQuery_parse(text) ==
    LET num(i) == PixivId_from_str(text[i])
    IN  IF Len(text) = 3 /\ text[2] = ".." /\ num(1).some /\ num(3).some
        THEN Some([kind |-> "between", lo |-> num(1).val, hi |-> num(3).val])
        ELSE IF Len(text) = 2 /\ text[2] = ".." /\ num(1).some
        THEN Some([kind |-> "from", lo |-> num(1).val])
        ELSE IF Len(text) = 2 /\ text[1] = ".." /\ num(2).some
        THEN Some([kind |-> "to", hi |-> num(2).val])
        ELSE IF Len(text) = 2 /\ text[1] = "<" /\ num(2).some
        THEN Some([kind |-> "less", lo |-> num(2).val])
        ELSE IF Len(text) = 2 /\ text[1] = ">" /\ num(2).some
        THEN Some([kind |-> "greater", lo |-> num(2).val])
        ELSE IF Len(text) = 1 /\ num(1).some
        THEN Some([kind |-> "exact", lo |-> num(1).val])
        ELSE None

\* range_index!(PixivIdIndexLoader, PixivIdIndex, ...) query
PixivIdIndex_query(ri, text, inverse) ==
    LET range_query == PixivRangeQuery_parse(text)
    IN  IF range_query.some THEN Some(Single(RangeIndex_get(ri, range_query.val), inverse))
        ELSE None

\* ParentId::from_str: `none` is ParentId(None), a u32 numeral n is
\* ParentId(Some(n)), anything else is an error.
ParentId_from_str(s) ==
    IF s = <<"n", "o", "n", "e">> THEN Some(None)
    ELSE IF Len(s) = 1 /\ ParseInt(s[1]).some /\ ParseInt(s[1]).val >= 0
    THEN Some(Some(ParseInt(s[1]).val))
    ELSE None

\* The singles of the comma branch of ParentIdIndex: one per value that
\* parses and has a posting.
ParentIdOrChain(items, values) ==
    {items[ParentId_from_str(values[k]).val] :
        k \in {j \in 1..Len(values) :
                /\ ParentId_from_str(values[j]).some
                /\ KeyIndex_get(items, ParentId_from_str(values[j]).val).some}}

\* key_index!(ParentIdIndexLoader, ParentIdIndex, ...) query
ParentIdIndex_query(items, text, inverse) ==
    IF contains(text, <<",">>)
    THEN LET or_chain == ParentIdOrChain(items, split(text))
         IN  IF or_chain = {} THEN None ELSE Some(OrChain(or_chain, inverse))
    ELSE LET key == ParentId_from_str(text)
         IN  IF key.some /\ KeyIndex_get(items, key.val).some
             THEN Some(Single(KeyIndex_get(items, key.val).val, inverse))
             ELSE None

\* A term of a parsed query: ident:text with its negation flag.
Term(ident, text, inverse) == [ident |-> ident, text |-> text, inverse |-> inverse]

\* The index registered under the identifier of the term builds its query.
IndexQuery(d, term) ==
    CASE term.ident = "" -> TagIndex_query(d.tag_index, term.text, term.inverse)
      [] term.ident = "score" -> ScoreIndex_query(d.score_index, term.text, term.inverse)
      [] term.ident = "status" -> StatusIndex_query(d.status_index, term.text, term.inverse)
      [] term.ident = "pixiv_id" -> PixivIdIndex_query(d.pixiv_index, term.text, term.inverse)
      [] term.ident = "parent_id" -> ParentIdIndex_query(d.parent_index, term.text, term.inverse)

\* Evaluation of what an index built: the posting (the union for an OrChain),
\* complemented within the occupied ids when the inverse flag is set.  A
\* request whose query construction panicked returns no ids.
EvalQuery(d, q) ==
    IF q.kind = "Panic" THEN {}
    ELSE LET base == IF q.kind = "Single" THEN q.posting ELSE UNION q.chain
         IN  IF q.inverse THEN Occupied(d.checks) \ base ELSE base

RECURSIVE EvalAnd(_, _, _)
\* The conjunction of the terms from position n down; a term for which the
\* index returns None contributes no constraint.
EvalAnd(d, terms, n) ==
    IF n = 0 THEN Occupied(d.checks)
    ELSE LET q == IndexQuery(d, terms[n])
         IN  IF q.some THEN EvalAnd(d, terms, n - 1) \cap EvalQuery(d, q.val)
             ELSE EvalAnd(d, terms, n - 1)

\* Db::query of a whitespace-separated list of terms.
Db_query(d, terms) == EvalAnd(d, terms, Len(terms))

(* ------------------------------------------------------------------ *)
(* routes/posts.rs: the GET /posts handler                              *)
(* ------------------------------------------------------------------ *)

\* Iterator::rev
Reverse(s) == [i \in 1..Len(s) |-> s[Len(s) + 1 - i]]

RECURSIVE Retain(_, _)
\* The elements of the sequence s that are in the set keep, in order.
Retain(s, keep) ==
    IF s = << >> THEN << >>
    ELSE IF Head(s) \in keep THEN <<Head(s)>> \o Retain(Tail(s), keep)
    ELSE Retain(Tail(s), keep)

\* EvalResult::get_sorted: walk the sort order (reversed if asked), skip the
\* first index matched ids and collect the next limit matched ids.
get_sorted(result, sort, index, limit, reverse) ==
    LET hits == Retain(IF reverse THEN Reverse(sort) ELSE sort, result)
    IN  SubSeq(hits, index + 1, Min({index + limit, Len(hits)}))

Sorts == {"IdAsc", "IdDesc", "ScoreAsc", "ScoreDesc"}

\* The match on sort: which range index gives the order, and the direction.
SortIds(d, sort) ==
    IF sort \in {"IdAsc", "IdDesc"} THEN RangeIndex_ids(d.id_index.range_index)
    ELSE RangeIndex_ids(d.score_index)

\* get_posts that takes the page number for the offset.
get_posts_offset_is_page(d, terms, sort, page, limit) ==
    LET result == Db_query(d, terms)
        ids == get_sorted(result, SortIds(d, sort), page, limit, sort \in {"IdDesc", "ScoreDesc"})
    IN  [matched |-> Cardinality(result),
         ids |-> ids,
         panicked |-> \E k \in 1..Len(ids) : ~id_to_post_id(d.id_index, ids[k]).some,
         post_ids |-> [k \in 1..Len(ids) |->
                        IF id_to_post_id(d.id_index, ids[k]).some
                        THEN id_to_post_id(d.id_index, ids[k]).val ELSE 0]]

\* get_posts between db.read() and drop(db): the matched set, the page of
\* dense ids and their post ids; the unwrap of a missing post id panics.
get_posts(d, terms, sort, page, limit) ==
    LET result == Db_query(d, terms)
        index == page * limit
        ids == get_sorted(result, SortIds(d, sort), index, limit, sort \in {"IdDesc", "ScoreDesc"})
    IN  [matched |-> Cardinality(result),
         ids |-> ids,
         panicked |-> \E k \in 1..Len(ids) : ~id_to_post_id(d.id_index, ids[k]).some,
         post_ids |-> [k \in 1..Len(ids) |->
                        IF id_to_post_id(d.id_index, ids[k]).some
                        THEN id_to_post_id(d.id_index, ids[k]).val ELSE 0]]

(* ------------------------------------------------------------------ *)
(* routes/tags.rs: the GET /tags handler                                *)
(* ------------------------------------------------------------------ *)

TagsSorts == {"CountAsc", "CountDesc"}

\* tag_db.query(&query): every live tag for the empty query, the tags the
\* name index returns for a query of one text term.
TagDb_query(tdb, text) ==
    IF text = << >> THEN Occupied(tdb.checks)
    ELSE SeqToSet(TagDbNameIndex_query(tdb, text)) \cap Occupied(tdb.checks)

\* get_tags between db.read() and drop(db): the matched tags, the page of
\* tag ids in the order of the count index, and for each the name with the
\* matched() of its posting; either unwrap panics on a missing entry.
get_tags(d, text, sort, page, limit) ==
    LET tdb == d.tag_index.tag_db
        result == TagDb_query(tdb, text)
        index == page * limit
        ids == get_sorted(result, RangeIndex_ids(tdb.count), index, limit, sort = "CountDesc")
        named(id) == id \in DOMAIN tdb.id_to_name
        counted(id) == named(id) /\ tdb.id_to_name[id] \in DOMAIN d.tag_index.keys_index
    IN  [matched |-> Cardinality(result),
         panicked |-> \E k \in 1..Len(ids) : ~counted(ids[k]),
         tags |-> [k \in 1..Len(ids) |->
                    IF counted(ids[k])
                    THEN <<tdb.id_to_name[ids[k]],
                           matched(d.tag_index.keys_index[tdb.id_to_name[ids[k]]])>>
                    ELSE <<<< >>, 0>>]]

(* ------------------------------------------------------------------ *)
(* The posts of the upstream table                                      *)
(* ------------------------------------------------------------------ *)

\* Tag names: "a_b" and "ac_b" share the abbreviation "ab"; "ba" has "b".
TagAB == <<"a", "_", "b">>
TagACB == <<"a", "c", "_", "b">>
TagBA == <<"b", "a">>
TagNames == {TagAB, TagACB, TagBA}

\* Largest length the pair array of the tag-db count index may reach.
MaxCountPairs == 4

\* The post ids of the upstream table: at most two rows exist at a time.
PostIds == {1, 2}

\* The dense ids the properties range over.
DenseIds == 0..(Cardinality(PostIds) + 1)

\* The field values a post may carry (tags, up_score, down_score, status,
\* pixiv_id, parent_id).
Contents ==
    {[tags |-> <<TagAB>>, up_score |-> 1, down_score |-> 0, status |-> "Active",
      pixiv_id |-> None, parent_id |-> None],
     [tags |-> <<TagACB>>, up_score |-> 0, down_score |-> -1, status |-> "Active",
      pixiv_id |-> Some(0), parent_id |-> Some(1)],
     [tags |-> <<TagAB, TagACB>>, up_score |-> 1, down_score |-> -1, status |-> "Deleted",
      pixiv_id |-> Some(1), parent_id |-> None],
     [tags |-> <<TagBA>>, up_score |-> 1, down_score |-> -1, status |-> "Active",
      pixiv_id |-> None, parent_id |-> Some(1)],
     [tags |-> <<TagAB>>, up_score |-> 0, down_score |-> 0, status |-> "Deleted",
      pixiv_id |-> Some(0), parent_id |-> Some(0)],
     [tags |-> <<TagACB, TagBA>>, up_score |-> 1, down_score |-> 0, status |-> "Deleted",
      pixiv_id |-> Some(1), parent_id |-> Some(1)]}

Statuses == {"Active", "Deleted"}

\* The BooruPost with post id i and the field values c.
PostOf(i, c) ==
    [id |-> i, tags |-> c.tags, up_score |-> c.up_score, down_score |-> c.down_score,
     status |-> c.status, pixiv_id |-> c.pixiv_id, parent_id |-> c.parent_id]

Posts == {PostOf(i, c) : i \in PostIds, c \in Contents}

(* ------------------------------------------------------------------ *)
(* State                                                                *)
(* ------------------------------------------------------------------ *)

VARIABLES
    db,        \* the Db behind the RwLock: occupied words and the indexes
    record,    \* dense id -> the post currently stored upstream under it
    used,      \* number of dense ids handed out so far (they are 0..used-1)
    recycled,  \* TRUE once an insert has reused a freed dense id
    last,      \* the kind of the operation applied last
    rw,        \* the RwLock around the Db: the write and the read in flight
    ing,       \* the initial ingestion: upstream rows, producer, channel, loader
    probe      \* a function under study: its input and, once applied, its output

vars == <<db, record, used, recycled, last, rw, ing, probe>>

\* The ingestion is over: the channel is closed and drained, the Db is loaded.
IngDone == [pc |-> "serving"]

\* No function is under study.
NoProbe == [kind |-> "none"]

\* Nobody holds the lock; no notification and no request is being served.
RwIdle == [writer |-> [pc |-> "idle"], reader |-> [pc |-> "idle"], writes |-> 0]

Live == DOMAIN record
LivePostIds == {record[i].id : i \in Live}

\* Sequences of at most MaxInit posts with pairwise distinct post ids.
InitialPosts ==
    UNION {{ps \in [1..n -> Posts] : \A i, j \in 1..n : i # j => ps[i].id # ps[j].id}
            : n \in 0..MaxInit}

\* main: the Db is built by DbLoader::load from the posts of the initial SELECT.
Init ==
    \E posts \in InitialPosts :
        \E order \in Orders(UNION {SeqToSet(posts[i].tags) : i \in 1..Len(posts)}) :
            /\ db = DbLoader_load(posts, order)
            /\ record = [i \in 0..(Len(posts) - 1) |-> posts[i + 1]]
            /\ used = Len(posts)
            /\ recycled = FALSE
            /\ last = "load"
            /\ rw = RwIdle
            /\ ing = IngDone
            /\ probe = NoProbe

\* The model follows the Db while the pair array of the count index is short.
Bounded(d) == Len(d.tag_index.tag_db.count.pairs) <= MaxCountPairs

\* "public_posts_insert" in main.rs: the free id is found by the inline scan.
\* The listener task processes notifications until one of them panics.
main_insert(post) ==
    /\ last # "abort"
    /\ UNCHANGED <<rw, ing, probe>>
    /\ LET id == main_next_id(db.checks)
       IN  /\ db' = Db_insert(db, id, post)
           /\ record' = MapPut(record, id, post)
           /\ recycled' = (recycled \/ id < used)
           /\ used' = IF id < used THEN used ELSE id + 1
           /\ last' = IF id < used THEN "reuse" ELSE "insert"
    /\ Bounded(db')

\* "public_posts_insert" in sync.rs: the free id comes from db.next_id().
handle_insert(post) ==
    /\ last # "abort"
    /\ UNCHANGED <<rw, ing, probe>>
    /\ LET id == Db_next_id(db.checks)
       IN  /\ db' = Db_insert(db, id, post)
           /\ record' = MapPut(record, id, post)
           /\ recycled' = (recycled \/ id < used)
           /\ used' = IF id < used THEN used ELSE id + 1
           /\ last' = IF id < used THEN "reuse" ELSE "insert"
    /\ Bounded(db')

\* "public_posts_update" that changes the Db before it looks the dense id up.
handle_update_modifies_first(old, new) ==
    /\ last # "abort"
    /\ UNCHANGED <<rw, ing, probe>>
    /\ LET found == post_id_to_id(db.id_index, old.id)
       IN  IF found.some
           THEN /\ \E added \in Orders(SeqToSet(new.tags) \ SeqToSet(old.tags)) :
                   \E removed \in Orders(SeqToSet(old.tags) \ SeqToSet(new.tags)) :
                       db' = Db_update(db, found.val, old, new, added, removed)
                /\ record' = [record EXCEPT ![found.val] = new]
                /\ Bounded(db')
                /\ last' = IF old.id = new.id THEN "update" ELSE "rekey"
                /\ UNCHANGED <<used, recycled>>
           ELSE /\ db' = [db EXCEPT !.status_index = StatusIndex_insert(@, 0, new)]
                /\ last' = "abort"
                /\ UNCHANGED <<record, used, recycled>>

\* "public_posts_update": the dense id is looked up by old.id; the unwrap of
\* a missing id panics before db.update is called, which ends the listener.
handle_update(old, new) ==
    /\ last # "abort"
    /\ UNCHANGED <<rw, ing, probe>>
    /\ LET found == post_id_to_id(db.id_index, old.id)
       IN  IF found.some
           THEN /\ \E added \in Orders(SeqToSet(new.tags) \ SeqToSet(old.tags)) :
                   \E removed \in Orders(SeqToSet(old.tags) \ SeqToSet(new.tags)) :
                       db' = Db_update(db, found.val, old, new, added, removed)
                /\ record' = [record EXCEPT ![found.val] = new]
                /\ Bounded(db')
                /\ last' = IF old.id = new.id THEN "update" ELSE "rekey"
                /\ UNCHANGED <<used, recycled>>
           ELSE /\ last' = "abort"
                /\ UNCHANGED <<db, record, used, recycled>>

\* "public_posts_delete": the dense id is looked up by post.id; the unwrap of
\* a missing id panics before db.remove is called, which ends the listener.
handle_delete(post) ==
    /\ last # "abort"
    /\ UNCHANGED <<rw, ing, probe>>
    /\ LET found == post_id_to_id(db.id_index, post.id)
       IN  IF found.some
           THEN /\ db' = Db_remove(db, found.val, post)
                /\ record' = MapDel(record, found.val)
                /\ Bounded(db')
                /\ last' = "delete"
                /\ UNCHANGED <<used, recycled>>
           ELSE /\ last' = "abort"
                /\ UNCHANGED <<db, record, used, recycled>>

\* The upstream table sends an insert for a new row, and an update or a delete
\* whose old payload is the row as it is stored; a notification may also name
\* a row the Db never received.
Next ==
    \/ \E post \in Posts : post.id \notin LivePostIds /\ main_insert(post)
    \/ \E post \in Posts : post.id \notin LivePostIds /\ handle_insert(post)
    \/ \E i \in Live : \E new \in Posts :
            new.id \notin (LivePostIds \ {record[i].id}) /\ handle_update(record[i], new)
    \/ \E i \in Live : handle_delete(record[i])
    \/ \E old \in Posts : \E new \in Posts :
            old.id \notin LivePostIds /\ handle_update(old, new)
    \/ \E post \in Posts : post.id \notin LivePostIds /\ handle_delete(post)

Spec == Init /\ [][Next]_vars

(* ------------------------------------------------------------------ *)
(* The RwLock: notifications and GET /posts requests, step by step      *)
(* ------------------------------------------------------------------ *)

\* Largest number of notifications served while requests interleave.
MaxWrites == 2

\* The indexes a Db operation forwards to, after it has set or cleared the
\* occupied bit; the registry does not fix the order among them.
IndexFields ==
    {"id_index", "score_index", "status_index", "pixiv_index", "parent_index", "tag_index"}

\* The posts the notifications of the interleaved runs carry.
LockPosts ==
    {post \in Posts :
        \/ post.tags = <<TagAB>> /\ post.status = "Active"
        \/ post.tags = <<TagACB, TagBA>>}

\* The requests: query, sort, page and limit.
Requests ==
    {[terms |-> << >>, sort |-> "IdAsc", page |-> 0, limit |-> 2],
     [terms |-> <<Term("status", StatusText("Active"), FALSE)>>, sort |-> "ScoreDesc",
      page |-> 0, limit |-> 1],
     [terms |-> <<Term("", TagAB, TRUE)>>, sort |-> "IdDesc", page |-> 1, limit |-> 1]}

\* tokio::sync::RwLock: the write guard is held while a notification is being
\* applied, the read guard from db.read() to drop(db).
WriteLocked == rw.writer.pc = "writing"
ReadLocked == rw.reader.pc \in {"locked", "queried", "sorted"}

\* db.write().await of a handler followed by its lookup: the guard is taken
\* when nobody holds the lock; target is the Db the operation will leave and
\* after the rows stored upstream once it is done.
write_begin(target, after) ==
    /\ Bounded(target)
    /\ rw' = [rw EXCEPT !.writer = [pc |-> "writing", bit |-> FALSE, done |-> {},
                                    target |-> target, after |-> after],
                        !.writes = @ + 1]
    /\ UNCHANGED <<ing, probe, db, record, used, recycled, last>>

\* "public_posts_insert" of handle_listener takes the write guard.
lock_insert(post) ==
    /\ last # "abort" /\ ~WriteLocked /\ ~ReadLocked /\ rw.writes < MaxWrites
    /\ LET id == Db_next_id(db.checks)
       IN  write_begin(Db_insert(db, id, post),
                       [record |-> MapPut(record, id, post),
                        used |-> IF id < used THEN used ELSE id + 1,
                        recycled |-> (recycled \/ id < used),
                        last |-> IF id < used THEN "reuse" ELSE "insert"])

\* "public_posts_update" of handle_listener takes the write guard; the unwrap
\* of a missing dense id panics, which drops the guard and ends the listener.
lock_update(old, new) ==
    /\ last # "abort" /\ ~WriteLocked /\ ~ReadLocked /\ rw.writes < MaxWrites
    /\ LET found == post_id_to_id(db.id_index, old.id)
       IN  IF found.some
           THEN \E added \in Orders(SeqToSet(new.tags) \ SeqToSet(old.tags)) :
                \E removed \in Orders(SeqToSet(old.tags) \ SeqToSet(new.tags)) :
                    write_begin(Db_update(db, found.val, old, new, added, removed),
                                [record |-> [record EXCEPT ![found.val] = new],
                                 used |-> used, recycled |-> recycled,
                                 last |-> IF old.id = new.id THEN "update" ELSE "rekey"])
           ELSE /\ last' = "abort"
                /\ rw' = [rw EXCEPT !.writes = @ + 1]
                /\ UNCHANGED <<ing, probe, db, record, used, recycled>>

\* A "public_posts_delete" whose panic leaves the write guard taken.
lock_delete_keeps_guard(post) ==
    /\ last # "abort" /\ ~WriteLocked /\ ~ReadLocked /\ rw.writes < MaxWrites
    /\ LET found == post_id_to_id(db.id_index, post.id)
       IN  IF found.some
           THEN write_begin(Db_remove(db, found.val, post),
                            [record |-> MapDel(record, found.val),
                             used |-> used, recycled |-> recycled, last |-> "delete"])
           ELSE /\ last' = "abort"
                /\ rw' = [rw EXCEPT !.writer = [pc |-> "writing", bit |-> FALSE, done |-> {},
                                                target |-> db,
                                                after |-> [record |-> record, used |-> used,
                                                           recycled |-> recycled, last |-> "abort"]],
                                    !.writes = @ + 1]
                /\ UNCHANGED <<ing, probe, db, record, used, recycled>>

\* "public_posts_delete" of handle_listener takes the write guard.
lock_delete(post) ==
    /\ last # "abort" /\ ~WriteLocked /\ ~ReadLocked /\ rw.writes < MaxWrites
    /\ LET found == post_id_to_id(db.id_index, post.id)
       IN  IF found.some
           THEN write_begin(Db_remove(db, found.val, post),
                            [record |-> MapDel(record, found.val),
                             used |-> used, recycled |-> recycled, last |-> "delete"])
           ELSE /\ last' = "abort"
                /\ rw' = [rw EXCEPT !.writes = @ + 1]
                /\ UNCHANGED <<ing, probe, db, record, used, recycled>>

\* Db::insert / remove / update under the write guard: first the occupied bit.
write_bit ==
    /\ WriteLocked /\ ~rw.writer.bit
    /\ db' = [db EXCEPT !.checks = rw.writer.target.checks]
    /\ rw' = [rw EXCEPT !.writer.bit = TRUE]
    /\ UNCHANGED <<ing, probe, record, used, recycled, last>>

\* ... then one index after the other.
write_index(f) ==
    /\ WriteLocked /\ rw.writer.bit /\ f \notin rw.writer.done
    /\ db' = [db EXCEPT ![f] = rw.writer.target[f]]
    /\ rw' = [rw EXCEPT !.writer.done = @ \cup {f}]
    /\ UNCHANGED <<ing, probe, record, used, recycled, last>>

\* The handler's match arm ends: the write guard is dropped.
write_end ==
    /\ WriteLocked /\ rw.writer.bit /\ rw.writer.done = IndexFields
    /\ record' = rw.writer.after.record
    /\ used' = rw.writer.after.used
    /\ recycled' = rw.writer.after.recycled
    /\ last' = rw.writer.after.last
    /\ rw' = [rw EXCEPT !.writer = [pc |-> "idle"]]
    /\ UNCHANGED <<ing, probe, db>>

\* A request that reads the Db without waiting for the writer.
get_posts_read_unguarded(req) ==
    /\ rw.reader.pc = "idle"
    /\ rw' = [rw EXCEPT !.reader = [pc |-> "locked", req |-> req, snap |-> db,
                                    whole |-> ~WriteLocked]]
    /\ UNCHANGED <<ing, probe, db, record, used, recycled, last>>

\* get_posts: db.read().await is granted while no write guard is held.
get_posts_read(req) ==
    /\ rw.reader.pc = "idle" /\ ~WriteLocked
    /\ rw' = [rw EXCEPT !.reader = [pc |-> "locked", req |-> req, snap |-> db,
                                    whole |-> ~WriteLocked]]
    /\ UNCHANGED <<ing, probe, db, record, used, recycled, last>>

\* get_posts: db.query(&query)
get_posts_query ==
    /\ rw.reader.pc = "locked"
    /\ rw' = [rw EXCEPT !.reader = [pc |-> "queried", req |-> @.req, snap |-> @.snap,
                                    whole |-> @.whole, result |-> Db_query(db, @.req.terms)]]
    /\ UNCHANGED <<ing, probe, db, record, used, recycled, last>>

\* get_posts: result.get_sorted(sort, page * limit, limit, reverse)
get_posts_sort ==
    /\ rw.reader.pc = "queried"
    /\ LET r == rw.reader
           ids == get_sorted(r.result, SortIds(db, r.req.sort), r.req.page * r.req.limit,
                             r.req.limit, r.req.sort \in {"IdDesc", "ScoreDesc"})
       IN  rw' = [rw EXCEPT !.reader = [pc |-> "sorted", req |-> r.req, snap |-> r.snap,
                                        whole |-> r.whole, result |-> r.result, ids |-> ids]]
    /\ UNCHANGED <<ing, probe, db, record, used, recycled, last>>

\* get_posts: the dense ids of the page are translated by id_to_post_id, then
\* drop(db) releases the read guard.
get_posts_translate ==
    /\ rw.reader.pc = "sorted"
    /\ LET r == rw.reader
       IN  rw' = [rw EXCEPT !.reader =
                    [pc |-> "done", req |-> r.req, snap |-> r.snap, whole |-> r.whole,
                     result |-> r.result, ids |-> r.ids,
                     panicked |-> \E k \in 1..Len(r.ids) : ~id_to_post_id(db.id_index, r.ids[k]).some,
                     post_ids |-> [k \in 1..Len(r.ids) |->
                                    IF id_to_post_id(db.id_index, r.ids[k]).some
                                    THEN id_to_post_id(db.id_index, r.ids[k]).val ELSE 0]]]
    /\ UNCHANGED <<ing, probe, db, record, used, recycled, last>>

NextLock ==
    \/ \E post \in LockPosts : post.id \notin LivePostIds /\ lock_insert(post)
    \/ \E i \in Live : \E new \in LockPosts :
            new.id \notin (LivePostIds \ {record[i].id}) /\ lock_update(record[i], new)
    \/ \E i \in Live : lock_delete(record[i])
    \/ \E post \in LockPosts : post.id \notin LivePostIds /\ lock_delete(post)
    \/ write_bit
    \/ \E f \in IndexFields : write_index(f)
    \/ write_end
    \/ \E req \in Requests : get_posts_read(req)
    \/ get_posts_query
    \/ get_posts_sort
    \/ get_posts_translate

SpecLock == Init /\ [][NextLock]_vars

(* ------------------------------------------------------------------ *)
(* Properties                                                           *)
(* ------------------------------------------------------------------ *)

\* The live dense ids whose post carries the tag.
Carriers(t) == {i \in Live : \E k \in 1..Len(record[i].tags) : record[i].tags[k] = t}

\* A tag name that no post of the table carries.
TagCA == <<"c", "a">>

ScoreValues == -2..2

\* C1: after any sequence of insert / remove / update, the posting every index
\* returns for a key or value k holds dense id i exactly when i is live and the
\* projection of record[i] equals k (for the tag index: contains k).
C1_IndexesMatchRecords ==
    /\ Occupied(db.checks) = Live
    /\ \A k \in Statuses :
        LET got == KeyIndex_get(db.status_index, k)
        IN  (IF got.some THEN got.val ELSE {}) = {i \in Live : record[i].status = k}
    /\ \A v \in ScoreValues :
        RangeIndex_get(db.score_index, [kind |-> "exact", lo |-> v])
            = {i \in Live : record[i].up_score + record[i].down_score = v}
    /\ \A p \in PostIds \cup {0, 3} :
        /\ RangeIndex_get(db.id_index.range_index, [kind |-> "exact", lo |-> p])
            = {i \in Live : record[i].id = p}
        /\ \A i \in DenseIds :
            (post_id_to_id(db.id_index, p) = Some(i)) <=> (i \in Live /\ record[i].id = p)
    /\ \A t \in TagNames \cup {TagCA} :
        LET got == KeyIndex_get(db.tag_index.keys_index, t)
        IN  (IF got.some THEN got.val ELSE {}) = Carriers(t)

\* C1 witness: an update has just been applied after a delete freed a dense id,
\* and a live post is found under its status.
C1_Witness ==
    /\ last = "update"
    /\ used > Cardinality(Live)
    /\ \E i \in Live : KeyIndex_get(db.status_index, record[i].status).some

ScoreNumerals == {<<"-1", -1>>, <<"0", 0>>, <<"1", 1>>}

\* The score literals written in the properties, each with the set of scores
\* it asks for: <<text, wanted>>.
ScoreLiterals ==
    {<<<<lo[1], "..", hi[1]>>, {v \in ScoreValues : lo[2] <= v /\ v <= hi[2]}>>
        : lo \in ScoreNumerals, hi \in ScoreNumerals}
    \cup {<<<<lo[1], "..">>, {v \in ScoreValues : lo[2] <= v}>> : lo \in ScoreNumerals}
    \cup {<<<<"..", hi[1]>>, {v \in ScoreValues : v <= hi[2]}>> : hi \in ScoreNumerals}
    \cup {<<<<"<", n[1]>>, {v \in ScoreValues : v < n[2]}>> : n \in ScoreNumerals}
    \cup {<<<<">", n[1]>>, {v \in ScoreValues : v > n[2]}>> : n \in ScoreNumerals}
    \cup {<<<<n[1]>>, {n[2]}>> : n \in ScoreNumerals}

\* C4: a range term on the score field returns exactly the live dense ids
\* whose up_score + down_score lies in the range, after any sequence of
\* insert / remove / update.
C4_ScoreRangeQuery ==
    \A lit \in ScoreLiterals :
        LET q == ScoreIndex_query(db.score_index, lit[1], FALSE)
        IN  /\ q.some
            /\ EvalQuery(db, q.val)
                = {i \in Live : record[i].up_score + record[i].down_score \in lit[2]}
            /\ Db_query(db, <<Term("score", lit[1], FALSE)>>) = EvalQuery(db, q.val)

\* C4 witness: after an update, score:0.. and score:<0 each select one of two
\* live posts.
C4_Witness ==
    /\ last = "update"
    /\ Cardinality(Live) = 2
    /\ Cardinality(Db_query(db, <<Term("score", <<"0", "..">>, FALSE)>>)) = 1
    /\ Cardinality(Db_query(db, <<Term("score", <<"<", "0">>, FALSE)>>)) = 1

\* The tag queries of one or two terms, each plain or negated.
TagTerms == {Term("", t, inv) : t \in TagNames \cup {TagCA}, inv \in BOOLEAN}
TagQueries == {<<a>> : a \in TagTerms} \cup {<<a, b>> : a \in TagTerms, b \in TagTerms}

\* C5: every dense id a query returns is live, also for queries with negated
\* terms; a query "x -y" over two tags that have postings returns the live
\* posts that carry x and do not carry y.
C5_ResultsAreLive ==
    /\ \A terms \in TagQueries : Db_query(db, terms) \subseteq Live
    /\ \A x \in TagNames : \A y \in TagNames :
        (Carriers(x) # {} /\ Carriers(y) # {})
            => Db_query(db, <<Term("", x, FALSE), Term("", y, TRUE)>>) = Carriers(x) \ Carriers(y)

\* C5 witness: a delete has left a tombstone below a live dense id, and a
\* negated term on a tag that has a posting is evaluated without returning it.
C5_Witness ==
    /\ last = "delete"
    /\ \E i \in Live : \E j \in 0..(i - 1) :
        /\ j \notin Live
        /\ \E y \in TagNames :
            /\ Carriers(y) # {}
            /\ j \notin Db_query(db, <<Term("", y, TRUE)>>)
            /\ j \notin KeyIndex_get(db.tag_index.keys_index, y).val

\* The tag-db: the tags it holds, their ids and the counts it stores.
TagDbOf == db.tag_index.tag_db
TagDbNames == DOMAIN TagDbOf.name_to_id
TagDbOccupied == Occupied(TagDbOf.checks)

\* A TagIndex seen through tag names instead of dense tag-ids: postings,
\* abbreviation table, names, the count stored for each name, and the names
\* listed under each gram.
TagIndexView(ti) ==
    [keys |-> ti.keys_index,
     abbreviations |-> ti.abbreviations,
     names |-> DOMAIN ti.tag_db.name_to_id,
     by_id |-> {ti.tag_db.id_to_name[id] : id \in DOMAIN ti.tag_db.id_to_name},
     counts |-> {<<n, ti.tag_db.count.id_values[ti.tag_db.name_to_id[n]]>>
                    : n \in {m \in DOMAIN ti.tag_db.name_to_id :
                                ti.tag_db.name_to_id[m] \in DOMAIN ti.tag_db.count.id_values}},
     n1gram |-> [g \in DOMAIN ti.tag_db.n1gram |-> {e[1] : e \in SeqToSet(ti.tag_db.n1gram[g])}],
     n2gram |-> [g \in DOMAIN ti.tag_db.n2gram |-> {e[1] : e \in SeqToSet(ti.tag_db.n2gram[g])}]]

RECURSIVE KeysOfRecords(_)
\* KeysIndexLoader::add for the live records of the set ids, then load.
KeysOfRecords(ids) ==
    IF ids = {} THEN EmptyMap
    ELSE LET i == CHOOSE j \in ids : TRUE
         IN  KeysIndex_insert(KeysOfRecords(ids \ {i}), i, record[i].tags)

\* The TagIndex that TagIndexLoader::load builds over the surviving records.
Rebuilt ==
    LET items == KeysOfRecords(Live)
    IN  TagIndexLoader_load(items, SetToSeq(DOMAIN items))

\* C2: as long as no dense id has been recycled, the TagIndex (postings,
\* abbreviation table, tag-db names, counts and name index) equals, up to the
\* renaming of dense tag-ids, the one TagIndexLoader::load builds over the
\* surviving records.
C2_EqualsRebuild == (~recycled) => TagIndexView(db.tag_index) = TagIndexView(Rebuilt)

\* C6: "/abv" returns the posting of a tag that has the highest current count
\* among the tags whose abbreviation is abv.
C6_AbbreviationMostPopular ==
    \A abv \in {abbreviate(t) : t \in TagNames} :
        LET cands == {t \in TagNames : abbreviate(t) = abv /\ Carriers(t) # {}}
            q == TagIndex_query(db.tag_index, <<"/">> \o abv, FALSE)
        IN  cands # {} =>
                /\ q.some
                /\ \E t \in cands :
                    /\ \A u \in cands : Cardinality(Carriers(u)) <= Cardinality(Carriers(t))
                    /\ q.val = Single(Carriers(t), FALSE)

\* The wildcard texts written in the properties.
WildcardTexts ==
    {<<"*", "b">>, <<"a", "*">>, <<"*", "a", "*">>, <<"*", "_", "b">>, <<"a", "c", "*">>,
     <<"*", "c", "_", "*">>, <<"b", "*">>, <<"*", "b", "a">>, <<"*", "a">>, <<"*", "c", "a">>,
     <<"*", "_", "*">>, <<"b", "a", "*">>}

\* What a wildcard text asks of a tag name.
WildcardHolds(text, name) ==
    LET n == Len(text)
    IN  IF text[1] = "*" /\ text[n] = "*" THEN contains(name, SubSeq(text, 2, n - 1))
        ELSE IF text[1] = "*" THEN ends_with(name, SubSeq(text, 2, n))
        ELSE starts_with(name, SubSeq(text, 1, n - 1))

\* C7: a default-index query whose text starts or ends with "*" returns
\* exactly the union of the postings of the tags of the tag-db whose name
\* satisfies the pattern, which are the live posts that carry such a tag.
C7_WildcardQuery ==
    \A text \in WildcardTexts :
        LET q == TagIndex_query(db.tag_index, text, FALSE)
            hits == {t \in TagDbNames : WildcardHolds(text, t)}
        IN  /\ q.some
            /\ q.val.kind = "OrChain"
            /\ EvalQuery(db, q.val) = UNION {db.tag_index.keys_index[t] : t \in hits}
            /\ EvalQuery(db, q.val)
                = {i \in Live : \E k \in 1..Len(record[i].tags) :
                                    WildcardHolds(text, record[i].tags[k])}

\* C7 witness: after an update, "*b" unites the postings of two tags held by
\* different posts, and "b*" selects nothing of them.
C7_Witness ==
    /\ last = "update"
    /\ Carriers(TagAB) # {}
    /\ Carriers(TagACB) # {}
    /\ Carriers(TagAB) # Carriers(TagACB)
    /\ EvalQuery(db, TagIndex_query(db.tag_index, <<"*", "b">>, FALSE).val)
        = Carriers(TagAB) \cup Carriers(TagACB)
    /\ EvalQuery(db, TagIndex_query(db.tag_index, <<"b", "*">>, FALSE).val) = {}

\* Every tag carried by a live post has exactly one tag-db record, and the
\* count stored for it is the number of live posts that carry it.
C8_CountsMatch ==
    \A t \in TagNames :
        Carriers(t) # {} =>
            /\ t \in TagDbNames
            /\ LET id == TagDbOf.name_to_id[t]
               IN  /\ id \in TagDbOccupied
                   /\ {j \in DOMAIN TagDbOf.id_to_name : TagDbOf.id_to_name[j] = t} = {id}
                   /\ id \in DOMAIN TagDbOf.count.id_values
                   /\ TagDbOf.count.id_values[id] = Cardinality(Carriers(t))
                   /\ <<Cardinality(Carriers(t)), id>> \in SeqToSet(TagDbOf.count.pairs)

\* A gain of a tag is an update from count - 1 to count for a tag that has a
\* record, and an insert with count 1 under a free tag-id for a new tag.
C8_Gain ==
    \A t \in TagNames :
        (Cardinality(Carriers(t)') = Cardinality(Carriers(t)) + 1) =>
            IF t \in TagDbNames
            THEN /\ TagDbOf'.name_to_id[t] = TagDbOf.name_to_id[t]
                 /\ TagDbOf.count.id_values[TagDbOf.name_to_id[t]] = Cardinality(Carriers(t))
                 /\ TagDbOf'.count.id_values[TagDbOf.name_to_id[t]] = Cardinality(Carriers(t)) + 1
            ELSE /\ Carriers(t) = {}
                 /\ t \in TagDbNames'
                 /\ TagDbOf'.name_to_id[t] \notin TagDbOccupied
                 /\ TagDbOf'.count.id_values[TagDbOf'.name_to_id[t]] = 1

TagDbIndexedIds(tdb) ==
    (DOMAIN tdb.id_to_name)
        \cup {tdb.name_to_id[n] : n \in DOMAIN tdb.name_to_id}
        \cup (DOMAIN tdb.count.id_values)
        \cup {p[2] : p \in SeqToSet(tdb.count.pairs)}
        \cup UNION {{e[2] : e \in SeqToSet(tdb.n1gram[g])} : g \in DOMAIN tdb.n1gram}
        \cup UNION {{e[2] : e \in SeqToSet(tdb.n2gram[g])} : g \in DOMAIN tdb.n2gram}

\* The tag names that occur anywhere in the indexes of the tag-db.
TagDbIndexedNames(tdb) ==
    (DOMAIN tdb.name_to_id)
        \cup {tdb.id_to_name[i] : i \in DOMAIN tdb.id_to_name}
        \cup UNION {{e[1] : e \in SeqToSet(tdb.n1gram[g])} : g \in DOMAIN tdb.n1gram}
        \cup UNION {{e[1] : e \in SeqToSet(tdb.n2gram[g])} : g \in DOMAIN tdb.n2gram}

\* C9: when a post remove or update makes the count of a tag drop to zero,
\* its dense tag-id is free afterwards and no index of the tag-db (name / id
\* maps, count range index, n-gram name index) still contains the tag-id or
\* the name.
C9_ZeroCountTagRemoved ==
    [][\A t \in TagNames :
        (Carriers(t) # {} /\ Carriers(t)' = {} /\ t \in TagDbNames) =>
            /\ TagDbOf.name_to_id[t] \notin TagDbOccupied'
            /\ TagDbOf.name_to_id[t] \notin TagDbIndexedIds(TagDbOf')
            /\ t \notin TagDbIndexedNames(TagDbOf')]_vars

\* The word arrays of at most two words.
WordArrays == UNION {[1..n -> 0..PackedMax] : n \in 0..2}

\* The scan returns the smallest dense id whose bit is clear, which is
\* words * PACKED_SIZE when every bit of every word is set.
LowestClear(checks) ==
    LET id == main_next_id(checks)
    IN  /\ id \notin Occupied(checks)
        /\ \A j \in 0..(id - 1) : j \in Occupied(checks)
        /\ (\A w \in 1..Len(checks) : checks[w] = PackedMax) => id = Len(checks) * PACKED_SIZE
        /\ id = Db_next_id(checks)

\* C10: the dense id used for a change-stream insert is the smallest id not
\* in the occupied set (the lowest clear bit over all words, or words *
\* PACKED_SIZE when every word is full); it is never an occupied id.
C10_LowestFreeId ==
    /\ Occupied(db.checks) = Live
    /\ LowestClear(db.checks)
    /\ main_next_id(db.checks) \notin Live
    /\ \A checks \in WordArrays : LowestClear(checks)

\* C10 witness: a delete has freed a dense id below a live one, and the scan
\* returns the freed id.
C10_Witness ==
    /\ last = "delete"
    /\ \E i \in Live : main_next_id(db.checks) < i
    /\ main_next_id(db.checks) < used

\* The dense ids the index of the term returns for it (none when the index
\* builds no query for the term).
Hits(d, term) ==
    LET q == IndexQuery(d, term)
    IN  IF q.some THEN EvalQuery(d, q.val) ELSE {}

\* Dense id k is returned for exactly the projections of post, in every index:
\* tags, status, score and post id.
SlotShowsRecord(d, k, post) ==
    /\ \A t \in TagNames \cup {TagCA} :
        (k \in Hits(d, Term("", t, FALSE))) <=> (t \in SeqToSet(post.tags))
    /\ \A st \in Statuses :
        (k \in Hits(d, Term("status", StatusText(st), FALSE))) <=> (st = post.status)
    /\ \A num \in ScoreNumerals :
        (k \in Hits(d, Term("score", <<num[1]>>, FALSE))) <=> (num[2] = ScoreValue(post))
    /\ \A p \in PostIds :
        (post_id_to_id(d.id_index, p).some /\ post_id_to_id(d.id_index, p).val = k)
            <=> (p = post.id)
    /\ id_to_post_id(d.id_index, k).some
    /\ id_to_post_id(d.id_index, k).val = post.id

\* Dense id k is returned by no index.
SlotShowsNothing(d, k) ==
    /\ \A t \in TagNames \cup {TagCA} : k \notin Hits(d, Term("", t, FALSE))
    /\ \A st \in Statuses : k \notin Hits(d, Term("status", StatusText(st), FALSE))
    /\ \A num \in ScoreNumerals : k \notin Hits(d, Term("score", <<num[1]>>, FALSE))
    /\ \A p \in PostIds :
        ~(post_id_to_id(d.id_index, p).some /\ post_id_to_id(d.id_index, p).val = k)
    /\ ~id_to_post_id(d.id_index, k).some

C12_UpdateKeepsId ==
    [][(last' \in {"update", "rekey"}) =>
        /\ db'.checks = db.checks
        /\ Live' = Live
        /\ \A i \in Live :
            /\ post_id_to_id(db.id_index, record[i].id).some
            /\ post_id_to_id(db.id_index, record[i].id).val = i
            /\ post_id_to_id(db'.id_index, record'[i].id).some
            /\ post_id_to_id(db'.id_index, record'[i].id).val = i
            /\ (record[i].id # record'[i].id
                    => ~post_id_to_id(db'.id_index, record[i].id).some)]_vars

\* C12 witness: an update has changed the post id of a record; the new post id
\* maps to its dense id and the other post id maps to nothing.
C12_Witness ==
    /\ last = "rekey"
    /\ \E i \in Live : \E p \in PostIds :
        /\ p # record[i].id
        /\ post_id_to_id(db.id_index, record[i].id).some
        /\ post_id_to_id(db.id_index, record[i].id).val = i
        /\ ~post_id_to_id(db.id_index, p).some

\* C13: IdIndex is a bijection between live dense ids and post ids:
\* post_id_to_id(p) = Some(i) iff id_to_post_id(i) = Some(p) iff live record i
\* has post id p.
C13_IdBijection ==
    \A p \in PostIds \cup {0, 3} : \A i \in DenseIds :
        LET fwd == post_id_to_id(db.id_index, p).some /\ post_id_to_id(db.id_index, p).val = i
            bwd == id_to_post_id(db.id_index, i).some /\ id_to_post_id(db.id_index, i).val = p
        IN  /\ fwd <=> bwd
            /\ fwd <=> (i \in Live /\ record[i].id = p)

\* C13 witness: after a delete one post is live and mapped both ways while the
\* post id of the deleted row maps to nothing.
C13_Witness ==
    /\ last = "delete"
    /\ Cardinality(Live) = 1
    /\ used = 2
    /\ \E i \in Live :
        /\ post_id_to_id(db.id_index, record[i].id).val = i
        /\ id_to_post_id(db.id_index, i).val = record[i].id
        /\ \E p \in PostIds : p # record[i].id /\ ~post_id_to_id(db.id_index, p).some

\* The queries, page sizes and page numbers the paging property ranges over.
PageQueries ==
    {<< >>, <<Term("", TagAB, FALSE)>>, <<Term("", TagAB, TRUE)>>,
     <<Term("status", StatusText("Active"), FALSE)>>}
PageLimits == {1, 2}
PageNumbers == 0..2

\* The sort key of a live dense id under a sort.
SortKey(sort, i) == IF sort \in {"IdAsc", "IdDesc"} THEN record[i].id ELSE ScoreValue(record[i])

\* full lists every id of the set once, by ascending (or descending) sort key.
IsOrderedList(full, matchedIds, sort) ==
    /\ full \in Orders(matchedIds)
    /\ \A a, b \in 1..Len(full) :
        a < b => IF sort \in {"IdAsc", "ScoreAsc"}
                 THEN SortKey(sort, full[a]) <= SortKey(sort, full[b])
                 ELSE SortKey(sort, full[a]) >= SortKey(sort, full[b])

\* The sub-list at the positions [k * limit, (k + 1) * limit) of full.
Slice(full, k, limit) == SubSeq(full, k * limit + 1, Min({(k + 1) * limit, Len(full)}))

\* The pages of get_sorted over a sort order of four ids are the slices of
\* the matched part of that order, for every matched set and direction.
PagesOfAnyOrder ==
    \A sort \in Orders(0..3) : \A result \in SUBSET (0..3) :
        \A limit \in 1..3 : \A k \in 0..4 : \A reverse \in BOOLEAN :
            get_sorted(result, sort, k * limit, limit, reverse)
                = Slice(Retain(IF reverse THEN Reverse(sort) ELSE sort, result), k, limit)

\* C14: for a fixed database state, query, sort and limit > 0, the page for
\* page number k is the sub-list at positions [k * limit, (k + 1) * limit) of
\* the list of the matched ids ordered by the sort key (ascending for *Asc,
\* descending for *Desc); the pages for k = 0, 1, ... concatenate to that list
\* without duplicates or gaps.
C14_Pages ==
    /\ \A terms \in PageQueries : \A sort \in Sorts : \A limit \in PageLimits :
        LET matchedIds == Db_query(db, terms)
            page(k) == get_posts(db, terms, sort, k, limit)
        IN  \E full \in Orders(matchedIds) :
                /\ IsOrderedList(full, matchedIds, sort)
                /\ \A k \in PageNumbers : page(k).ids = Slice(full, k, limit)
                /\ page(0).ids \o page(1).ids \o page(2).ids = full
                /\ page(0).matched = Len(full)
    /\ ((last = "load" /\ used = 0) => PagesOfAnyOrder)

\* C14 witness: two posts with different scores match; with limit 1 and sort
\* ScoreDesc page 0 is the id of the higher score, page 1 the other one and
\* page 2 is empty.
C14_Witness ==
    /\ Cardinality(Live) = 2
    /\ \E i, j \in Live :
        /\ ScoreValue(record[i]) > ScoreValue(record[j])
        /\ record[i].id < record[j].id
        /\ get_posts(db, << >>, "ScoreDesc", 0, 1).ids = <<i>>
        /\ get_posts(db, << >>, "ScoreDesc", 1, 1).ids = <<j>>
        /\ get_posts(db, << >>, "ScoreDesc", 2, 1).ids = << >>
        /\ get_posts(db, << >>, "IdAsc", 0, 2).ids = <<i, j>>

\* Terms whose text is not a legal literal of the field.
BadTerms ==
    {Term("score", txt, inv) : txt \in {<<"x">>, <<"1", ",", "2">>, <<"..">>, << >>}, inv \in BOOLEAN}
        \cup {Term("status", txt, inv) :
                txt \in {<<"f", "o", "o">>, <<"f", "o", "o", ",", "b">>, << >>}, inv \in BOOLEAN}

\* Queries of legal terms.
GoodQueries ==
    {<< >>, <<Term("", TagAB, FALSE)>>, <<Term("", TagACB, TRUE)>>,
     <<Term("score", <<"0", "..">>, FALSE)>>,
     <<Term("status", StatusText("Active"), FALSE), Term("", TagAB, FALSE)>>}

\* C15: a term whose text is not a legal literal of its field makes the index
\* return None for either value of the inverse flag; the term is dropped and
\* the query evaluates as if the term had not been written.
C15_BadLiteralDropped ==
    \A bad \in BadTerms :
        /\ ~IndexQuery(db, bad).some
        /\ \A terms \in GoodQueries :
            /\ Db_query(db, terms \o <<bad>>) = Db_query(db, terms)
            /\ Db_query(db, <<bad>> \o terms) = Db_query(db, terms)

\* C15 witness: two posts are live, one of them carries a_b; the query
\* "a_b score:x" returns what "a_b" returns, and "score:x" alone returns both.
C15_Witness ==
    /\ Cardinality(Live) = 2
    /\ Cardinality(Carriers(TagAB)) = 1
    /\ Db_query(db, <<Term("", TagAB, FALSE), Term("score", <<"x">>, FALSE)>>) = Carriers(TagAB)
    /\ Db_query(db, <<Term("score", <<"x">>, TRUE)>>) = Live

\* Terms that name a tag or a status that no live record carries.
AbsentTerms ==
    {Term("", t, FALSE) : t \in {u \in TagNames \cup {TagCA} : Carriers(u) = {}}}
        \cup {Term("status", StatusText(st), FALSE) :
                st \in {x \in Statuses : \A i \in Live : record[i].status # x}}

\* C16: a term naming a tag or a key value that no live record carries is not
\* rejected and matches nothing: the query of that term alone returns the
\* empty set, and a conjunction containing it returns the empty set.
C16_AbsentValueMatchesNothing ==
    \A absent \in AbsentTerms :
        /\ Db_query(db, <<absent>>) = {}
        /\ \A terms \in GoodQueries : Db_query(db, terms \o <<absent>>) = {}

\* The text "t,u" of two tag names.
CommaText(t, u) == t \o <<",">> \o u

\* C17: a comma-separated term on the default tag index returns the union of
\* the postings of the listed tags: all live records carrying one of them.
C17_TagCommaUnion ==
    \A t, u \in TagNames :
        t # u => Db_query(db, <<Term("", CommaText(t, u), FALSE)>>) = Carriers(t) \cup Carriers(u)

\* Status values as a query may write them, with the status each one names
\* ("-" when it names none).
StatusWords ==
    {<<<<"a", "c", "t", "i", "v", "e">>, "Active">>,
     <<<<"D", "e", "l", "e", "t", "e", "d">>, "Deleted">>,
     <<<<"b", "a", "n", "n", "e", "d">>, "Banned">>,
     <<<<"f", "o", "o">>, "-">>,
     <<<< >>, "-">>}

\* The live records whose status is st.
StatusCarriers(st) == {i \in Live : record[i].status = st}

\* C18: a comma-separated term on a key-style index returns the union of the
\* postings of the listed values that parse and have a posting; the other
\* values are skipped; if no value remains the term yields None; with the
\* inverse flag the result is the complement of the union within the live ids.
C18_KeyCommaUnion ==
    \A v \in StatusWords : \A w \in StatusWords : \A inv \in BOOLEAN :
        LET q == StatusIndex_query(db.status_index, CommaText(v[1], w[1]), inv)
            remaining == {st \in {v[2], w[2]} : StatusCarriers(st) # {}}
            union == UNION {StatusCarriers(st) : st \in remaining}
        IN  IF remaining = {} THEN ~q.some
            ELSE /\ q.some
                 /\ EvalQuery(db, q.val) = IF inv THEN Live \ union ELSE union

\* C18 witness: an active and a deleted post are live; "active,foo" returns
\* the active one, its negation the deleted one, and "Deleted,active" both.
C18_Witness ==
    /\ StatusCarriers("Active") # {}
    /\ StatusCarriers("Deleted") # {}
    /\ Hits(db, Term("status", CommaText(StatusText("Active"), <<"f", "o", "o">>), FALSE))
        = StatusCarriers("Active")
    /\ Hits(db, Term("status", CommaText(StatusText("Active"), <<"f", "o", "o">>), TRUE))
        = StatusCarriers("Deleted")
    /\ Hits(db, Term("status", CommaText(<<"D", "e", "l", "e", "t", "e", "d">>, StatusText("Active")), FALSE))
        = Live

\* C19: a change-stream update or delete that names a post id with no dense
\* id in the IdIndex aborts before the occupied set or any index is modified:
\* the database state after the abort equals the state before the
\* notification.
C19_AbortLeavesDb ==
    [][(last' = "abort") =>
        /\ db' = db
        /\ Occupied(db'.checks) = Live
        /\ record' = record
        /\ \E p \in PostIds : ~post_id_to_id(db.id_index, p).some]_vars

\* C19 witness: a notification named a row the Db does not hold while another
\* row is live; the listener has stopped and the indexes still show the live
\* row.
C19_Witness ==
    /\ last = "abort"
    /\ Cardinality(Live) = 1
    /\ \E i \in Live : SlotShowsRecord(db, i, record[i])
    /\ \E p \in PostIds : ~post_id_to_id(db.id_index, p).some

\* The response get_posts computes from the Db d for the request.
ResponseOf(d, req) == get_posts(d, req.terms, req.sort, req.page, req.limit)

\* C20: for every interleaving of get_posts requests with change
\* notifications, the matched set, the sorted page and the translation of
\* the dense ids to post ids of one response are computed from a single
\* database state that lies between two whole insert / update / remove
\* operations; every dense id of the page resolves to a post id.
C20_ResponseFromOneState ==
    LET r == rw.reader
    IN  /\ ReadLocked => (r.whole /\ ~WriteLocked /\ db = r.snap)
        /\ r.pc \in {"queried", "sorted", "done"} => r.result = Db_query(r.snap, r.req.terms)
        /\ r.pc \in {"sorted", "done"} => r.ids = ResponseOf(r.snap, r.req).ids
        /\ r.pc = "done" =>
            /\ r.whole
            /\ ~r.panicked
            /\ r.post_ids = ResponseOf(r.snap, r.req).post_ids
            /\ Cardinality(r.result) = ResponseOf(r.snap, r.req).matched
            /\ \A k \in 1..Len(r.ids) : id_to_post_id(r.snap.id_index, r.ids[k]).some

\* C20 witness: a response with a page of two posts was computed between two
\* notifications: one was served before the request and another one has
\* changed the Db since.
C20_Witness ==
    /\ rw.reader.pc = "done"
    /\ rw.writes = 2
    /\ ~WriteLocked
    /\ Len(rw.reader.ids) = 2
    /\ db # rw.reader.snap

(* ------------------------------------------------------------------ *)
(* main.rs: the initial ingestion through the sync_channel              *)
(* ------------------------------------------------------------------ *)

\* The bound of sync_channel::<BooruPost>(1024), scaled down.
CHANNEL_BOUND == 1

\* Largest number of rows the initial SELECT yields.
MaxRows == 3

\* An item of the row stream: a decoded row or a decode error.
RowOk(post) == [ok |-> TRUE, post |-> post]
RowErr == [ok |-> FALSE]

\* The field values the rows of the initial SELECT carry.
RowContents == {c \in Contents : c.status = "Active" /\ c.up_score = 1}

\* The row streams: row k either fails to decode or is the post with id k.
RowStreams ==
    UNION {{rs \in [1..n -> {RowErr} \cup {RowOk(PostOf(k, c)) : k \in 1..MaxRows, c \in RowContents}] :
                \A k \in 1..n : rs[k].ok => rs[k].post.id = k}
            : n \in 0..MaxRows}

\* The Db the loader has built nothing into yet.
NoDb == DbLoader_load(<< >>, << >>)

\* main before the first row: the producer task is about to poll the stream
\* and the loader is about to iterate the receiver.
InitIngest ==
    /\ \E rows \in RowStreams :
           ing = [pc |-> "ingesting", rows |-> rows, next |-> 1, producer |-> "next",
                  held |-> None, chan |-> << >>, added |-> << >>]
    /\ db = NoDb
    /\ record = EmptyMap
    /\ used = 0
    /\ recycled = FALSE
    /\ last = "start"
    /\ rw = RwIdle
    /\ probe = NoProbe

\* posts.next().await of `while let Some(Ok(post))`: a decoded row enters the
\* loop body; the end of the stream or a decode error ends the loop, and the
\* task drops tx when it returns.
producer_next ==
    /\ ing.pc = "ingesting" /\ ing.producer = "next"
    /\ ing' = IF ing.next <= Len(ing.rows) /\ ing.rows[ing.next].ok
              THEN [ing EXCEPT !.held = Some(ing.rows[ing.next].post),
                               !.next = @ + 1, !.producer = "send"]
              ELSE [ing EXCEPT !.producer = "done"]
    /\ UNCHANGED <<db, record, used, recycled, last, rw, probe>>

\* tx.send on a channel that never blocks the sender.
producer_send_unbounded ==
    /\ ing.pc = "ingesting" /\ ing.producer = "send"
    /\ ing' = [ing EXCEPT !.chan = Append(@, ing.held.val), !.held = None,
                          !.producer = "next"]
    /\ UNCHANGED <<db, record, used, recycled, last, rw, probe>>

\* tx.send(post.into()): blocks while the channel holds CHANNEL_BOUND posts.
producer_send ==
    /\ ing.pc = "ingesting" /\ ing.producer = "send"
    /\ Len(ing.chan) < CHANNEL_BOUND
    /\ ing' = [ing EXCEPT !.chan = Append(@, ing.held.val), !.held = None,
                          !.producer = "next"]
    /\ UNCHANGED <<db, record, used, recycled, last, rw, probe>>

\* A loader that starts to receive only once the sender has been dropped.
loader_recv_after_close ==
    /\ ing.pc = "ingesting" /\ ing.chan # << >> /\ ing.producer = "done"
    /\ ing' = [ing EXCEPT !.chan = Tail(@), !.added = Append(@, Head(ing.chan))]
    /\ UNCHANGED <<db, record, used, recycled, last, rw, probe>>

\* rx.iter() inside DbLoader::load: the next post is received and added to
\* the loaders under the next dense id.
loader_recv ==
    /\ ing.pc = "ingesting" /\ ing.chan # << >>
    /\ ing' = [ing EXCEPT !.chan = Tail(@), !.added = Append(@, Head(ing.chan))]
    /\ UNCHANGED <<db, record, used, recycled, last, rw, probe>>

\* rx.iter() ends once the channel is empty and tx is dropped; the loaders
\* are turned into the indexes of the Db.
loader_load ==
    /\ ing.pc = "ingesting" /\ ing.chan = << >> /\ ing.producer = "done"
    /\ \E order \in Orders(UNION {SeqToSet(ing.added[i].tags) : i \in 1..Len(ing.added)}) :
           db' = DbLoader_load(ing.added, order)
    /\ record' = [i \in 0..(Len(ing.added) - 1) |-> ing.added[i + 1]]
    /\ used' = Len(ing.added)
    /\ last' = "load"
    /\ ing' = [ing EXCEPT !.pc = "serving"]
    /\ UNCHANGED <<recycled, rw, probe>>

NextIngest == producer_next \/ producer_send \/ loader_recv \/ loader_load

SpecIngest == InitIngest /\ [][NextIngest]_vars

(* ------------------------------------------------------------------ *)
(* Properties of the initial ingestion                                  *)
(* ------------------------------------------------------------------ *)

\* The posts of the rows that decode, in stream order.
RECURSIVE Decoded(_)
Decoded(rows) ==
    IF rows = << >> THEN << >>
    ELSE IF Head(rows).ok THEN <<Head(rows).post>> \o Decoded(Tail(rows))
         ELSE Decoded(Tail(rows))

\* The Db holds the post: it is the record of a live dense id the id index
\* translates its post id to.
Indexed(post) ==
    \E i \in Live :
        /\ record[i] = post
        /\ BitSet(db.checks, i)
        /\ post_id_to_id(db.id_index, post.id) = Some(i)

\* C21: once the initial ingestion is over, every upstream row that decodes
\* has been sent to the loader and is indexed, whether or not a row before it
\* failed to decode.
C21_FailedRowSkipped ==
    (ing.pc = "serving" /\ "rows" \in DOMAIN ing) =>
        /\ ing.added = Decoded(ing.rows)
        /\ \A k \in 1..Len(ing.rows) : ing.rows[k].ok => Indexed(ing.rows[k].post)

\* The posts the producer has taken from the stream so far.
Taken == Decoded(SubSeq(ing.rows, 1, ing.next - 1))

\* The post the producer holds inside a blocked tx.send, if any.
HeldSeq == IF ing.held.some THEN <<ing.held.val>> ELSE << >>

\* The channel never holds more than its bound, and the posts received,
\* those in the channel and the one being sent are the posts taken, in order.
ChannelFifo ==
    ing.pc = "ingesting" =>
        /\ Len(ing.chan) <= CHANNEL_BOUND
        /\ ing.added \o ing.chan \o HeldSeq = Taken

\* A producer that finds the channel full stays inside tx.send with its post.
BlocksWhenFull ==
    (ing.pc = "ingesting" /\ ing.producer = "send" /\ Len(ing.chan) = CHANNEL_BOUND) =>
        (ing'.producer = "send" /\ ing'.held = ing.held)

PixivPositions(i) ==
    {k \in 1..Len(RangeIndex_ids(db.pixiv_index)) : RangeIndex_ids(db.pixiv_index)[k] = i}

\* In the order of the pixiv_id index every record without a pixiv id comes
\* before every record with one.
PixivNoneFirst ==
    \A i \in Live : \A j \in Live :
        (~record[i].pixiv_id.some /\ record[j].pixiv_id.some) =>
            /\ PixivPositions(i) # {} /\ PixivPositions(j) # {}
            /\ \A k \in PixivPositions(i) : \A l \in PixivPositions(j) : k < l

\* `pixiv_id:none` selects exactly the live records without a pixiv id.
PixivNoneQuery ==
    Db_query(db, <<Term("pixiv_id", <<"none">>, FALSE)>>)
        = {i \in Live : ~record[i].pixiv_id.some}

\* `parent_id:none` selects exactly the live records without a parent id.
ParentNoneQuery ==
    Db_query(db, <<Term("parent_id", <<"n", "o", "n", "e">>, FALSE)>>)
        = {i \in Live : ~record[i].parent_id.some}

\* C23: for the optional fields an absent value orders strictly below every
\* present value, and the literal `none` selects exactly the live records
\* whose field is absent, for the range-indexed pixiv_id as well as for the
\* key-indexed parent_id (approver is the same key_index! instance).
C23_NoneLiteral == PixivNoneFirst /\ PixivNoneQuery /\ ParentNoneQuery

(* ------------------------------------------------------------------ *)
(* Properties of the tag-db text query                                  *)
(* ------------------------------------------------------------------ *)

\* The id list is strictly ascending, hence free of repetitions.
StrictlyAscending(ids) == \A k \in 1..(Len(ids) - 1) : ids[k] < ids[k + 1]

\* C24: the id list a tag-db text query returns holds each surviving tag id
\* exactly once and in ascending order.
C24_IdListAscending ==
    \A text \in WildcardTexts :
        StrictlyAscending(TagDbNameIndex_query(db.tag_index.tag_db, text))

\* Wildcard texts whose text part has one, two and three characters.
NameTexts ==
    WildcardTexts \cup {<<"*", "a", "_", "b">>, <<"a", "c", "_", "*">>, <<"*", "c", "_", "b", "*">>,
                        <<"*", "b", "*">>, <<"a">>, <<"b", "a">>}

\* Texts whose text part is empty.
EmptyTexts == {<< >>, <<"*">>, <<"*", "*">>}

\* What a text asks of a tag name: the bare text asks for containment.
NameHolds(text, name) ==
    IF text[1] # "*" /\ text[Len(text)] # "*" THEN contains(name, text)
    ELSE WildcardHolds(text, name)

\* C25: a tag-db text query with a non-empty text returns exactly the live
\* tags whose name starts with, contains or ends with the text according to
\* the wildcard form, whichever gram index shortlists them, and a query with
\* an empty text returns nothing.
C25_TextQueryExact ==
    /\ \A text \in NameTexts :
           TagDb_query_ids(TagDbOf, text)
               = {id \in TagDbOccupied :
                     /\ id \in DOMAIN TagDbOf.id_to_name
                     /\ NameHolds(text, TagDbOf.id_to_name[id])}
    /\ \A text \in EmptyTexts : TagDbNameIndex_query(TagDbOf, text) = << >>

\* C25 witness: three tags are live; a one-character text and a
\* two-character text each select some but not all of them.
C25_Witness ==
    /\ Cardinality(TagDbOccupied) = 3
    /\ Cardinality(TagDb_query_ids(TagDbOf, <<"b", "*">>)) = 1
    /\ Cardinality(TagDb_query_ids(TagDbOf, <<"*", "_", "b">>)) = 2
    /\ Cardinality(TagDb_query_ids(TagDbOf, <<"*", "c", "_", "b", "*">>)) = 1

(* ------------------------------------------------------------------ *)
(* Frame of a TagIndex update                                           *)
(* ------------------------------------------------------------------ *)

\* What a TagIndex holds about one tag: its posting, the counts the tag-db
\* stores for it and the counts of its abbreviation entries.
TagEntry(ti, t) ==
    LET tdb == ti.tag_db
        ids == IF t \in DOMAIN tdb.name_to_id THEN {tdb.name_to_id[t]} ELSE {}
        items == ItemsOf(ti.abbreviations, abbreviate(t))
    IN  [posting |-> IF t \in DOMAIN ti.keys_index THEN ti.keys_index[t] ELSE {},
         stored |-> {tdb.count.id_values[id] : id \in ids \cap DOMAIN tdb.count.id_values},
         ranked |-> {tdb.count.pairs[k][1] :
                        k \in {j \in 1..Len(tdb.count.pairs) : tdb.count.pairs[j][2] \in ids}},
         abbreviated |-> {items[k][1] : k \in {j \in 1..Len(items) : items[j][2] = t}}]

\* The tags the step puts on or takes off a live record.
ChangedTags ==
    {t \in TagNames :
        \E i \in Live \cap DOMAIN record' :
            (t \in SeqToSet(record[i].tags)) # (t \in SeqToSet(record'[i].tags))}

\* An update step changes what the TagIndex holds only for the tags in the
\* symmetric difference of the old and the new tag list.
UpdateFrame ==
    (last' \in {"update", "rekey"}) =>
        /\ \A t \in TagNames \ ChangedTags :
               TagEntry(db'.tag_index, t) = TagEntry(db.tag_index, t)
        /\ \A i \in Live : \A t \in TagNames :
               LET old == SeqToSet(record[i].tags)
                   new == SeqToSet(record'[i].tags)
               IN  /\ t \in old \ new =>
                        /\ i \in TagEntry(db.tag_index, t).posting
                        /\ i \notin TagEntry(db'.tag_index, t).posting
                   /\ t \in new \ old =>
                        /\ i \notin TagEntry(db.tag_index, t).posting
                        /\ i \in TagEntry(db'.tag_index, t).posting
        /\ ChangedTags = {} => db'.tag_index = db.tag_index

\* C26: a TagIndex update of a record from one tag list to another changes
\* only the postings, tag-db counts and abbreviation counts of the tags in the
\* symmetric difference of the two lists: the record leaves the postings of
\* the tags it lost and enters those of the tags it gained, every other tag
\* is untouched, and equal lists change nothing.
C26_UpdateFrame == [][UpdateFrame]_vars

\* C26 witness: an update has replaced one tag of a record by another while
\* a third tag, carried by the other record, kept its posting and counts.
C26_Witness ==
    /\ last = "update"
    /\ \E i \in Live : \E j \in Live \ {i} :
           /\ record[i].tags = <<TagACB, TagBA>>
           /\ record[j].tags = <<TagAB>>
           /\ TagEntry(db.tag_index, TagAB).posting = {j}
           /\ TagEntry(db.tag_index, TagAB).stored = {1}
           /\ TagEntry(db.tag_index, TagBA).posting = {i}

(* ------------------------------------------------------------------ *)
(* booru_db: the Query tree, its simplification and its evaluation      *)
(* ------------------------------------------------------------------ *)

\* Longest chain and deepest nesting of the query trees under study.
MaxChain == 2
MaxDepth == 2

\* Longest tag name handed to abbreviate.
MaxName == 3

\* Query { item: Item::AndChain(queries) / Item::OrChain(queries), inverse }
Chain(kind, queries, inverse) == [kind |-> kind, chain |-> queries, inverse |-> inverse]

\* Not(q): the inverse flag toggled.
Not(q) == [q EXCEPT !.inverse = ~@]

\* The constant queries: the empty posting and its inverse.
EmptyQuery == Single({}, FALSE)
UniverseQuery == Single({}, TRUE)

RECURSIVE evaluate(_, _)
\* Query::evaluate within the occupied ids: a Single is its posting, an
\* AndChain the intersection and an OrChain the union of its children; the
\* inverse flag complements the result within the occupied ids.
evaluate(q, occupied) ==
    LET kids == {evaluate(q.chain[k], occupied) : k \in 1..Len(q.chain)}
        base == CASE q.kind = "Single" -> q.posting \cap occupied
                  [] q.kind = "AndChain" ->
                        {i \in occupied : \A kid \in kids : i \in kid}
                  [] q.kind = "OrChain" -> UNION kids
    IN  IF q.inverse THEN occupied \ base ELSE base

RECURSIVE Splice_any(_, _)
\* The splice that ignores the inverse flag of the nested chain.
Splice_any(kind, queries) ==
    IF queries = << >> THEN << >>
    ELSE LET q == Head(queries)
         IN  (IF q.kind = kind THEN q.chain ELSE <<q>>) \o Splice_any(kind, Tail(queries))

RECURSIVE Splice(_, _)
\* Collapse of nested chains: a child that is a chain of the same kind, not
\* inverted, is replaced by its children.
Splice(kind, queries) ==
    IF queries = << >> THEN << >>
    ELSE LET q == Head(queries)
         IN  (IF q.kind = kind /\ ~q.inverse THEN q.chain ELSE <<q>>)
                \o Splice(kind, Tail(queries))

RECURSIVE Without(_, _)
\* The queries of the sequence other than the constant c.
Without(queries, c) ==
    IF queries = << >> THEN << >>
    ELSE (IF Head(queries) = c THEN << >> ELSE <<Head(queries)>>) \o Without(Tail(queries), c)

RECURSIVE simplify(_)
\* Query::simplify: children first; nested chains of the same kind collapse;
\* a constant child decides the chain or drops out of it (the universe in an
\* AndChain, the empty posting in an OrChain); an empty chain is a constant;
\* a chain of one child is the child, its flag toggled by the chain's flag.
simplify(q) ==
    IF q.kind = "Single" THEN q
    ELSE LET kids == Splice(q.kind, [k \in 1..Len(q.chain) |-> simplify(q.chain[k])])
             neutral == IF q.kind = "AndChain" THEN UniverseQuery ELSE EmptyQuery
             deciding == IF q.kind = "AndChain" THEN EmptyQuery ELSE UniverseQuery
             kept == Without(kids, neutral)
         IN  IF \E k \in 1..Len(kids) : kids[k] = deciding
             THEN (IF q.inverse THEN Not(deciding) ELSE deciding)
             ELSE IF kept = << >> THEN (IF q.inverse THEN Not(neutral) ELSE neutral)
             ELSE IF Len(kept) = 1 THEN (IF q.inverse THEN Not(kept[1]) ELSE kept[1])
             ELSE Chain(q.kind, kept, q.inverse)

(* ------------------------------------------------------------------ *)
(* Functions applied to inputs of their own                             *)
(* ------------------------------------------------------------------ *)

\* The sequences over S of length at most n.
SeqsUpTo(S, n) == UNION {[1..m -> S] : m \in 0..n}

\* The tag names handed to abbreviate.
TagLongHair == <<"l", "o", "n", "g", "_", "h", "a", "i", "r">>
TagBracketed == <<"_", "(", "a", ")", "_", "_", "b">>
AbbreviateInputs ==
    SeqsUpTo({"a", "b", "_", "(", ")"}, MaxName) \cup {TagLongHair, TagBracketed}

\* The occupied ids and the postings of the query trees.
ProbeOccupied == {0, 1}
ProbePostings == {{}, {0}, ProbeOccupied}

RECURSIVE QueryTrees(_)
\* The query trees nested at most depth deep.
QueryTrees(depth) ==
    IF depth = 0 THEN {Single(p, inv) : p \in ProbePostings, inv \in BOOLEAN}
    ELSE QueryTrees(depth - 1)
            \cup {Chain(kind, qs, inv) : kind \in {"AndChain", "OrChain"},
                                        qs \in SeqsUpTo(QueryTrees(depth - 1), MaxChain),
                                        inv \in BOOLEAN}

\* A function is about to be applied to an input.
InitPure ==
    /\ \/ \E name \in AbbreviateInputs :
              probe = [kind |-> "abbreviate", input |-> name, output |-> None]
       \/ \E q \in QueryTrees(MaxDepth) :
              probe = [kind |-> "simplify", input |-> q, output |-> None]
    /\ db = NoDb
    /\ record = EmptyMap
    /\ used = 0
    /\ recycled = FALSE
    /\ last = "start"
    /\ rw = RwIdle
    /\ ing = IngDone

\* TagAbbreviations::abbreviate(text)
apply_abbreviate ==
    /\ probe.kind = "abbreviate" /\ ~probe.output.some
    /\ probe' = [probe EXCEPT !.output = Some(abbreviate(probe.input))]
    /\ UNCHANGED <<db, record, used, recycled, last, rw, ing>>

\* query.simplify() of get_posts and get_tags
apply_simplify ==
    /\ probe.kind = "simplify" /\ ~probe.output.some
    /\ probe' = [probe EXCEPT !.output = Some(simplify(probe.input))]
    /\ UNCHANGED <<db, record, used, recycled, last, rw, ing>>

NextPure == apply_abbreviate \/ apply_simplify

SpecPure == InitPure /\ [][NextPure]_vars

(* ------------------------------------------------------------------ *)
(* Properties of abbreviate and of simplify                             *)
(* ------------------------------------------------------------------ *)

\* The positions of the name that survive the deletion of the brackets.
Unbracketed(name) == {i \in 1..Len(name) : name[i] \notin {"(", ")"}}

\* The positions that start a non-empty part: a surviving character other
\* than '_' with no surviving character before it or a '_' right before it.
PartStarts(name) ==
    {i \in Unbracketed(name) :
        /\ name[i] # "_"
        /\ \A p \in Unbracketed(name) :
               (p < i /\ \A r \in Unbracketed(name) : ~(p < r /\ r < i)) => name[p] = "_"}

\* The characters of the name at the positions of S, in ascending order.
CharsAt(name, S) ==
    [k \in 1..Cardinality(S) |->
        name[CHOOSE i \in S : Cardinality({j \in S : j < i}) = k - 1]]

\* C27: the abbreviation of a tag name is what is left after deleting every
\* bracket, splitting the rest on '_' and concatenating the first character
\* of each non-empty part; empty parts contribute nothing, and long_hair
\* gives lh.
C27_Abbreviation ==
    (probe.kind = "abbreviate" /\ probe.output.some) =>
        /\ probe.output.val = CharsAt(probe.input, PartStarts(probe.input))
        /\ probe.input = TagLongHair => probe.output.val = <<"l", "h">>

\* C27 witness: a name with brackets and empty parts has been abbreviated.
C27_Witness ==
    /\ probe.kind = "abbreviate"
    /\ probe.input = TagBracketed
    /\ probe.output = Some(<<"a", "b">>)

\* The chain of the other kind over the negated children, negated.
Dual(q) ==
    Chain(IF q.kind = "AndChain" THEN "OrChain" ELSE "AndChain",
          [k \in 1..Len(q.chain) |-> Not(q.chain[k])], ~q.inverse)

\* Simplification keeps the result of the query and of the queries built
\* from it, whatever ids are occupied.
SimplifyKeeps(q, out) ==
    \A occupied \in SUBSET ProbeOccupied :
        LET result == evaluate(q, occupied)
            same(r) == evaluate(simplify(r), occupied) = result
        IN  /\ evaluate(out, occupied) = result
            /\ same(Chain("AndChain", <<Chain("OrChain", <<q>>, TRUE)>>, TRUE))
            /\ same(Chain("AndChain", <<q, UniverseQuery>>, FALSE))
            /\ same(Chain("OrChain", <<EmptyQuery, q>>, FALSE))
            /\ q.kind # "Single" =>
                    /\ evaluate(Dual(q), occupied) = result
                    /\ same(Dual(q))

\* C28: simplifying a query never changes its result: double negation
\* cancels, conjunction with the universe and disjunction with the empty set
\* are identities, and de Morgan's laws hold with the complement taken
\* within the occupied ids.
C28_SimplifyKeepsResult ==
    (probe.kind = "simplify" /\ probe.output.some) =>
        SimplifyKeeps(probe.input, probe.output.val)

\* C28 witness: a negated conjunction that nests a conjunction and holds a
\* universe constant has been simplified to a different query.
C28_Witness ==
    /\ probe.kind = "simplify"
    /\ probe.input = Chain("AndChain",
                           <<Chain("AndChain", <<Single({0}, FALSE), UniverseQuery>>, FALSE),
                             Single(ProbeOccupied, TRUE)>>, TRUE)
    /\ probe.output.some
    /\ probe.output.val # probe.input

(* ------------------------------------------------------------------ *)
(* Properties of GET /tags                                              *)
(* ------------------------------------------------------------------ *)

\* The tags of the first page of the listing of all tags, with room for
\* every entry of the count index.
TagsListing(sort) == get_tags(db, << >>, sort, 0, MaxCountPairs + 1)

\* C29: after any sequence of post insert / remove / update the tags listed
\* with sort=count_desc come in non-increasing order of the count reported
\* for each (non-decreasing for count_asc), every listed tag is carried by
\* at least one live post, and the count reported is the number of live
\* posts that carry it.
C29_TagsByCount ==
    \A sort \in TagsSorts :
        LET listing == TagsListing(sort)
            tags == listing.tags
        IN  /\ ~listing.panicked
            /\ \A k \in 1..(Len(tags) - 1) :
                   IF sort = "CountDesc" THEN tags[k][2] >= tags[k + 1][2]
                   ELSE tags[k][2] <= tags[k + 1][2]
            /\ \A k \in 1..Len(tags) :
                   /\ Carriers(tags[k][1]) # {}
                   /\ tags[k][2] = Cardinality(Carriers(tags[k][1]))

(* ------------------------------------------------------------------ *)
(* TagIndex insert followed by remove                                   *)
(* ------------------------------------------------------------------ *)

\* Tag lists of the post that is inserted and removed again: lists of the
\* table, a tag no post carries, and lists that repeat a tag.
RoundTripTags ==
    {<<TagAB>>, <<TagACB, TagBA>>, <<TagCA>>, <<TagAB, TagAB>>, <<TagBA, TagCA, TagBA>>}

\* What a TagIndex holds: the postings, the abbreviation lists, and for each
\* live tag-db record its name, the count stored for it and its entries in
\* the count index.
TagIndexState(ti) ==
    LET tdb == ti.tag_db
        names == TagNames \cup {TagCA}
    IN  [postings |-> [t \in names |-> IF t \in DOMAIN ti.keys_index THEN ti.keys_index[t] ELSE {}],
         abbreviations |-> [a \in {abbreviate(t) : t \in names} |-> ItemsOf(ti.abbreviations, a)],
         tags |-> [id \in Occupied(tdb.checks) |->
                    [name |-> IF id \in DOMAIN tdb.id_to_name THEN <<tdb.id_to_name[id]>> ELSE << >>,
                     count |-> IF id \in DOMAIN tdb.count.id_values
                               THEN <<tdb.count.id_values[id]>> ELSE << >>,
                     ranked |-> SelectSeq(tdb.count.pairs, LAMBDA p : p[2] = id)]]]

\* insert(i, r) followed by remove(i, r).
RoundTrip(ti, i, r) == TagIndex_remove(TagIndex_insert(ti, i, r), i, r)

\* C30: in any reachable TagIndex state, for any free dense id i and any post
\* r, also one whose tag list repeats a tag, insert(i, r) followed by
\* remove(i, r) restores the postings, the abbreviation entries with their
\* counts and order, and the live tag-db records with their counts.
C30_InsertRemoveRestores ==
    \A i \in DenseIds \ Occupied(db.checks) : \A tags \in RoundTripTags :
        TagIndexState(RoundTrip(db.tag_index, i, [tags |-> tags]))
            = TagIndexState(db.tag_index)

(* ------------------------------------------------------------------ *)
(* Properties of the abbreviation table                                 *)
(* ------------------------------------------------------------------ *)

\* Every tag name a record, an abbreviation item or the table of tags names.
KnownTags ==
    TagNames \cup {TagCA}
        \cup UNION {SeqToSet(record[i].tags) : i \in Live}
        \cup UNION {{db.tag_index.abbreviations[a][k][2] :
                        k \in 1..Len(db.tag_index.abbreviations[a])}
                    : a \in DOMAIN db.tag_index.abbreviations}

\* The counts of the items the abbreviation table holds for the tag, one per item.
AbbreviationCounts(t) ==
    LET items == ItemsOf(db.tag_index.abbreviations, abbreviate(t))
    IN  SelectSeq([k \in 1..Len(items) |-> IF items[k][2] = t THEN items[k][1] ELSE -1],
                  LAMBDA c : c # -1)

\* The abbreviation table holds an item for a tag exactly when a live post
\* carries the tag; the item's count is the number of those posts, which is
\* the popcount of the tag's posting, and no count is below one.
AbbreviationCountsMatch ==
    \A t \in KnownTags :
        /\ AbbreviationCounts(t) =
              (IF Carriers(t) = {} THEN << >> ELSE <<Cardinality(Carriers(t))>>)
        /\ Carriers(t) # {} =>
              /\ t \in DOMAIN db.tag_index.keys_index
              /\ matched(db.tag_index.keys_index[t]) = Cardinality(Carriers(t))

\* Posts whose tag_string names a tag more than once: BooruPost::from splits
\* the string at whitespace and keeps every occurrence.
RepeatContents ==
    {[tags |-> <<TagAB>>, up_score |-> 1, down_score |-> 0, status |-> "Active",
      pixiv_id |-> None, parent_id |-> None],
     [tags |-> <<TagAB, TagAB>>, up_score |-> 1, down_score |-> 0, status |-> "Active",
      pixiv_id |-> None, parent_id |-> None],
     [tags |-> <<TagBA, TagAB, TagBA>>, up_score |-> 0, down_score |-> -1, status |-> "Deleted",
      pixiv_id |-> Some(0), parent_id |-> Some(1)],
     [tags |-> <<TagACB>>, up_score |-> 0, down_score |-> 0, status |-> "Active",
      pixiv_id |-> Some(1), parent_id |-> None]}

RepeatPosts == {PostOf(i, c) : i \in PostIds, c \in RepeatContents}

\* main: the Db is built from at most MaxInit of these posts.
InitRepeat ==
    \E n \in 0..MaxInit : \E posts \in [1..n -> RepeatPosts] :
        \E order \in Orders(UNION {SeqToSet(posts[i].tags) : i \in 1..Len(posts)}) :
            /\ \A i, j \in 1..n : i # j => posts[i].id # posts[j].id
            /\ db = DbLoader_load(posts, order)
            /\ record = [i \in 0..(Len(posts) - 1) |-> posts[i + 1]]
            /\ used = Len(posts)
            /\ recycled = FALSE
            /\ last = "load"
            /\ rw = RwIdle
            /\ ing = IngDone
            /\ probe = NoProbe

\* The notifications of an upstream table that holds these posts.
NextRepeat ==
    \/ \E post \in RepeatPosts : post.id \notin LivePostIds /\ handle_insert(post)
    \/ \E i \in Live : \E new \in RepeatPosts :
            new.id \notin (LivePostIds \ {record[i].id}) /\ handle_update(record[i], new)
    \/ \E i \in Live : handle_delete(record[i])

SpecRepeat == InitRepeat /\ [][NextRepeat]_vars

\* C31: after load and any sequence of insert, remove and update, the
\* abbreviation table holds an item (count, name) for a tag if and only if
\* at least one live post carries the tag, the item's count is the number of
\* live posts carrying it (the popcount of the tag's posting), and no count
\* underflows below zero.
C31_AbbreviationCounts == AbbreviationCountsMatch

(* ------------------------------------------------------------------ *)
(* Properties of the tag-db id index                                    *)
(* ------------------------------------------------------------------ *)

\* name_to_id and id_to_name are inverse of each other.
IdMapsInverse ==
    /\ \A n \in DOMAIN TagDbOf.name_to_id :
            /\ TagDbOf.name_to_id[n] \in DOMAIN TagDbOf.id_to_name
            /\ TagDbOf.id_to_name[TagDbOf.name_to_id[n]] = n
    /\ \A id \in DOMAIN TagDbOf.id_to_name :
            /\ TagDbOf.id_to_name[id] \in DOMAIN TagDbOf.name_to_id
            /\ TagDbOf.name_to_id[TagDbOf.id_to_name[id]] = id

\* The tags with a non-empty posting.
PostedTags == {t \in DOMAIN db.tag_index.keys_index : db.tag_index.keys_index[t] # {}}

\* The texts a /tags request is made with in the properties.
TagsTexts == {<< >>, <<"a">>, <<"b">>, <<"_", "b">>, <<"c", "a">>}

\* C32: in every reachable state name_to_id and id_to_name are inverse of
\* each other, their ids are exactly the live dense tag-ids, their names are
\* exactly the tags with a non-empty posting in keys_index, and so the
\* lookups by tag-id and by name made while a wildcard query or a /tags
\* request is answered always succeed.
C32_IdMapsInverse ==
    /\ IdMapsInverse
    /\ DOMAIN TagDbOf.id_to_name = TagDbOccupied
    /\ TagDbNames = PostedTags
    /\ \A text \in WildcardTexts : \A inverse \in BOOLEAN :
            TagIndex_query(db.tag_index, text, inverse) # Some(Panic)
    /\ \A text \in TagsTexts : \A sort \in TagsSorts :
            ~get_tags(db, text, sort, 0, MaxCountPairs + 1).panicked

\* A tag has lost its last post and its tag-id is free below a live one,
\* while a wildcard query and a /tags request still find tags to look up.
C32_Witness ==
    /\ last \in {"delete", "update"}
    /\ \E id \in TagDbOccupied : \E free \in 0..id : free \notin TagDbOccupied
    /\ \E text \in WildcardTexts : TagDb_query_ids(TagDbOf, text) # {}
    /\ get_tags(db, << >>, "CountDesc", 0, MaxCountPairs + 1).tags # << >>

(* ------------------------------------------------------------------ *)
(* main.rs: the upstream table changes while the program starts         *)
(* ------------------------------------------------------------------ *)

\* Number of upstream changes followed.
MaxNotifications == 3

\* The rows the upstream table may hold.
SyncPosts ==
    {PostOf(i, c) : i \in PostIds,
                    c \in {d \in Contents : d.tags \in {<<TagAB>>, <<TagACB>>} /\ d.status = "Active"}}

\* What posts_notify() sends for a row change: the channel and the OLD and
\* NEW rows (an insert carries NEW, a delete OLD).
Notification(channel, old, new) == [channel |-> channel, old |-> old, new |-> new]

\* The listener has subscribed (listen_all); the SELECT has not started.
\* The table holds some rows already.
InitSync ==
    /\ \E table \in SUBSET SyncPosts :
           /\ Cardinality(table) <= 1
           /\ ing = [pc |-> "listening", table |-> table, rows |-> {},
                     queue |-> << >>, sent |-> 0]
    /\ db = NoDb
    /\ record = EmptyMap
    /\ used = 0
    /\ recycled = FALSE
    /\ last = "start"
    /\ rw = RwIdle
    /\ probe = NoProbe

\* The ids of the rows of the upstream table.
TableIds == {p.id : p \in ing.table}

\* An upstream INSERT: the trigger notifies the subscribed listener.
upstream_insert(post) ==
    /\ ing.pc # "serving" /\ ing.sent < MaxNotifications
    /\ post.id \notin TableIds
    /\ ing' = [ing EXCEPT !.table = @ \cup {post},
                          !.queue = Append(@, Notification("public_posts_insert", post, post)),
                          !.sent = @ + 1]
    /\ UNCHANGED <<db, record, used, recycled, last, rw, probe>>

\* An upstream UPDATE of a row.
upstream_update(old, new) ==
    /\ ing.pc # "serving" /\ ing.sent < MaxNotifications
    /\ old \in ing.table /\ new # old /\ new.id \notin (TableIds \ {old.id})
    /\ ing' = [ing EXCEPT !.table = (@ \ {old}) \cup {new},
                          !.queue = Append(@, Notification("public_posts_update", old, new)),
                          !.sent = @ + 1]
    /\ UNCHANGED <<db, record, used, recycled, last, rw, probe>>

\* An upstream DELETE of a row.
upstream_delete(post) ==
    /\ ing.pc # "serving" /\ ing.sent < MaxNotifications
    /\ post \in ing.table
    /\ ing' = [ing EXCEPT !.table = @ \ {post},
                          !.queue = Append(@, Notification("public_posts_delete", post, post)),
                          !.sent = @ + 1]
    /\ UNCHANGED <<db, record, used, recycled, last, rw, probe>>

\* "SELECT * FROM posts" starts: the statement sees the table as it is now.
select_posts ==
    /\ ing.pc = "listening"
    /\ ing' = [ing EXCEPT !.pc = "streaming", !.rows = ing.table]
    /\ UNCHANGED <<db, record, used, recycled, last, rw, probe>>

\* The rows of the SELECT have gone through the channel in some order and
\* DbLoader::load has built the Db; the notification task starts.
sync_load ==
    /\ ing.pc = "streaming"
    /\ \E posts \in Orders(ing.rows) :
        \E order \in Orders(UNION {SeqToSet(q.tags) : q \in ing.rows}) :
            /\ db' = DbLoader_load(posts, order)
            /\ record' = [i \in 0..(Len(posts) - 1) |-> posts[i + 1]]
            /\ used' = Len(posts)
    /\ last' = "load"
    /\ ing' = [ing EXCEPT !.pc = "applying"]
    /\ UNCHANGED <<recycled, rw, probe>>

\* pg_listener.recv() in the notification task of main.rs: the oldest
\* notification is applied; a missing dense id panics and ends the task.
listener_recv ==
    /\ ing.pc = "applying" /\ ing.queue # << >> /\ last # "abort"
    /\ ing' = [ing EXCEPT !.queue = Tail(@)]
    /\ UNCHANGED <<rw, probe>>
    /\ LET n == Head(ing.queue)
           found == post_id_to_id(db.id_index, n.old.id)
       IN  IF n.channel = "public_posts_insert"
           THEN LET id == main_next_id(db.checks)
                IN  /\ db' = Db_insert(db, id, n.new)
                    /\ record' = MapPut(record, id, n.new)
                    /\ recycled' = (recycled \/ id < used)
                    /\ used' = IF id < used THEN used ELSE id + 1
                    /\ last' = IF id < used THEN "reuse" ELSE "insert"
           ELSE IF ~found.some
           THEN /\ last' = "abort"
                /\ UNCHANGED <<db, record, used, recycled>>
           ELSE IF n.channel = "public_posts_update"
           THEN /\ \E added \in Orders(SeqToSet(n.new.tags) \ SeqToSet(n.old.tags)) :
                   \E removed \in Orders(SeqToSet(n.old.tags) \ SeqToSet(n.new.tags)) :
                       db' = Db_update(db, found.val, n.old, n.new, added, removed)
                /\ record' = [record EXCEPT ![found.val] = n.new]
                /\ last' = IF n.old.id = n.new.id THEN "update" ELSE "rekey"
                /\ UNCHANGED <<used, recycled>>
           ELSE /\ db' = Db_remove(db, found.val, n.old)
                /\ record' = MapDel(record, found.val)
                /\ last' = "delete"
                /\ UNCHANGED <<used, recycled>>

NextSync ==
    \/ \E post \in SyncPosts : upstream_insert(post)
    \/ \E old \in SyncPosts : \E new \in SyncPosts : upstream_update(old, new)
    \/ \E post \in SyncPosts : upstream_delete(post)
    \/ select_posts
    \/ sync_load
    \/ listener_recv

SpecSync == InitSync /\ [][NextSync]_vars

\* The dense ids under which the Db holds a post id.
DenseIdsOf(post_id) ==
    {i \in Occupied(db.checks) :
        /\ i \in DOMAIN db.id_index.range_index.id_values
        /\ db.id_index.range_index.id_values[i] = post_id}

\* The load is done and every notification sent so far has been received.
AllApplied == ing.pc = "applying" /\ ing.queue = << >>

\* C33: once the initial load and every notification received since the
\* listener subscribed have been applied, every post of the upstream table
\* is live under exactly one dense id and no other post is live, also when
\* the table changes while the program starts and the SELECT streams.
C33_LoadThenNotifications ==
    AllApplied =>
        /\ \A p \in ing.table : Cardinality(DenseIdsOf(p.id)) = 1
        /\ \A i \in Occupied(db.checks) : \E p \in ing.table : i \in DenseIdsOf(p.id)

(* ------------------------------------------------------------------ *)
(* The listener task and the requests after a notification aborts       *)
(* ------------------------------------------------------------------ *)

\* A notification has aborted: the listener task has ended.
ListenerEnded == last = "abort"

\* The write guard is free once the listener has ended, and a request finds
\* its next step enabled: the read guard is granted, the query, the sort and
\* the translation go on.
AfterAbortServing ==
    ListenerEnded =>
        /\ ~WriteLocked
        /\ rw.reader.pc = "idle" => \A req \in Requests : ENABLED get_posts_read(req)
        /\ rw.reader.pc = "locked" => (ENABLED get_posts_query /\ rw.reader.snap = db)
        /\ rw.reader.pc = "queried" => (ENABLED get_posts_sort /\ rw.reader.snap = db)
        /\ rw.reader.pc = "sorted" => (ENABLED get_posts_translate /\ rw.reader.snap = db)

\* A step of the listener and of a request: the Db changes only under the
\* write guard, a notification is taken up only when the one before it is
\* over, and after an abort nothing is applied and a response is computed
\* from the Db as the last applied notification left it.
OneAtATime ==
    /\ db' # db => (WriteLocked /\ WriteLocked')
    /\ rw'.writes # rw.writes =>
            (~WriteLocked /\ ~ReadLocked /\ rw'.writes = rw.writes + 1
                /\ (WriteLocked' \/ last' = "abort"))
    /\ ListenerEnded =>
            /\ last' = "abort" /\ ~WriteLocked'
            /\ db' = db /\ record' = record /\ rw'.writes = rw.writes
            /\ (rw.reader.pc = "sorted" /\ rw'.reader.pc = "done") =>
                    /\ ~rw'.reader.panicked
                    /\ rw'.reader.post_ids = ResponseOf(db, rw.reader.req).post_ids
                    /\ Cardinality(rw'.reader.result) = ResponseOf(db, rw.reader.req).matched

\* C34: change notifications are applied one at a time, each under the
\* write lock; once a notification aborts because its post id has no dense
\* id, the listener task has ended, the write lock is free, no later
\* notification is ever applied, and requests go on being answered from the
\* state the last applied notification left.
C34_AbortEndsListener == []AfterAbortServing /\ [][OneAtATime]_vars

\* A notification was applied, the next one aborted, and a request made
\* after that has been answered with a post from the Db the first one left.
C34_Witness ==
    /\ ListenerEnded
    /\ rw.writes = MaxWrites
    /\ Live # {}
    /\ rw.reader.pc = "done"
    /\ rw.reader.snap = db
    /\ rw.reader.post_ids # << >>

(* ------------------------------------------------------------------ *)
(* Termination of the bulk load                                         *)
(* ------------------------------------------------------------------ *)

\* What loader_load does to the ingestion: load(posts) returns.
load_returns ==
    /\ ing.pc = "ingesting" /\ ing.chan = << >> /\ ing.producer = "done"
    /\ ing' = [ing EXCEPT !.pc = "serving"]

\* The producer is a task on a worker thread of the runtime and the loader
\* runs on the main thread: each of them takes its next step when it can.
FairIngest ==
    /\ SpecIngest
    /\ WF_vars(producer_next) /\ WF_vars(producer_send)
    /\ WF_vars(loader_recv) /\ WF_ing(load_returns)

\* The load is over: the channel is drained, every post the producer sent
\* is in the Db under its own dense id, and the serving phase has started.
LoadFinished ==
    /\ ing.pc = "serving" /\ ing.producer = "done" /\ ing.chan = << >>
    /\ last = "load"
    /\ ing.added = Taken
    /\ Occupied(db.checks) = 0..(Len(ing.added) - 1)
    /\ record = [i \in 0..(Len(ing.added) - 1) |-> ing.added[i + 1]]

\* C35: the bulk load terminates: the producer blocked on a full channel
\* gets to send, and once it has ended and dropped the sender the receive
\* loop ends after the buffered posts, the Db is built and the serving
\* phase starts.
C35_LoadTerminates ==
    /\ (ing.producer = "send") ~> (ing.producer # "send")
    /\ (ing.producer = "done") ~> LoadFinished
    /\ <>LoadFinished

\* The load is over with more posts than the channel holds at a time.
C35_Witness ==
    /\ LoadFinished
    /\ Len(ing.added) > CHANNEL_BOUND

(* ------------------------------------------------------------------ *)
(* Order of the abbreviation lists                                      *)
(* ------------------------------------------------------------------ *)

\* The list is in descending order of (count, name).
DescendingItems(items) ==
    \A k \in 1..(Len(items) - 1) : ItemCmp(items[k], items[k + 1]) = 1

\* No two items of the list name the same tag.
DistinctNames(items) ==
    \A j, k \in 1..Len(items) : j # k => items[j][2] # items[k][2]

\* C36: in every reachable state each abbreviation's item list is sorted in
\* descending order of (count, name) with no two items for the same tag
\* name, so that the first item is the one with the highest count; insert,
\* insert_item and remove preserve this order.
C36_ListsSorted ==
    \A a \in DOMAIN db.tag_index.abbreviations :
        LET items == db.tag_index.abbreviations[a]
        IN  /\ items # << >>
            /\ DescendingItems(items)
            /\ DistinctNames(items)
            /\ \A k \in 1..Len(items) : items[k][1] <= items[1][1]

====
